---------------------------- MODULE Spec2Model ----------------------------
(***************************************************************************)
(* Model of the mock trading engine: the position ledger                   *)
(* (models/user.go), the ledger update and the decision engine (main.go),  *)
(* the mock executor (alpaca/client.go) and the persistence layer          *)
(* (database/sqlite.go).                                                   *)
(*                                                                         *)
(* Numbers.  The program computes with shopspring decimals.  Addition,     *)
(* subtraction and multiplication are exact; Div rounds the quotient half  *)
(* away from zero at DivisionPrecision fractional digits (16 in the        *)
(* library).  A money amount or a price is modelled as an integer count of *)
(* 10^-DivisionPrecision dollars, a quantity as a whole number of shares   *)
(* (every quantity the engine creates is Truncate(0) of a quotient), a     *)
(* float64 strength as a count of tenths and the risk fraction as a pair   *)
(* <<numerator, denominator>>.                                             *)
(***************************************************************************)
EXTENDS Integers, Sequences, FiniteSets, TLC

\* Fractional digits kept by decimal.Div (16 in the library; the model keeps
\* fewer so that the amounts stay within TLC's integers).
DivisionPrecision == 1

\* Bound on the number of calls made by SpecPosition.
MaxOps == 4

\* Bound on the number of ledger updates made by SpecLedger.
MaxFills == 3

RECURSIVE Pow10(_)
Pow10(n) == IF n = 0 THEN 1 ELSE 10 * Pow10(n - 1)

\* One dollar, in model units.
Scale == Pow10(DivisionPrecision)

Dollars(n) == n * Scale

Abs(x) == IF x < 0 THEN -x ELSE x

Sign(x) == IF x < 0 THEN -1 ELSE IF x > 0 THEN 1 ELSE 0

Min(a, b) == IF a <= b THEN a ELSE b

\* The integer nearest to n/d, halves away from zero (d # 0): the rounding of
\* decimal.Div at its last kept digit.
RoundHalfAway(n, d) == Sign(n) * Sign(d) * ((2 * Abs(n) + Abs(d)) \div (2 * Abs(d)))

\* The integer part of n/d, towards zero (d # 0).
TruncDiv(n, d) == Sign(n) * Sign(d) * (Abs(n) \div Abs(d))

\* decimal.Div of a money amount by a share quantity: a money amount.
DivByQuantity(amount, quantity) == RoundHalfAway(amount, quantity)

Symbols == {"AAPL", "GOOGL"}

\* ------------------------------------------------------------------------
\* models/user.go: Portfolio

\* The zero value &models.Portfolio{UserID, Symbol}.
NewPortfolio ==
    [Quantity |-> 0, AveragePrice |-> 0, CurrentValue |-> 0, UnrealizedPL |-> 0]

UpdatePosition_unweighted(p, quantity, price) ==
    IF p.Quantity = 0
    THEN [p EXCEPT !.Quantity = quantity, !.AveragePrice = price]
    ELSE IF Sign(quantity) = Sign(p.Quantity)
    THEN [p EXCEPT !.Quantity = p.Quantity + quantity, !.AveragePrice = price]
    ELSE IF p.Quantity + quantity = 0
    THEN [p EXCEPT !.Quantity = 0]
    ELSE [p EXCEPT !.Quantity = p.Quantity + quantity]

\* Portfolio.UpdatePosition(quantity, price): quantity is signed.
UpdatePosition(p, quantity, price) ==
    IF p.Quantity = 0
    THEN \* New position
         [p EXCEPT !.Quantity = quantity, !.AveragePrice = price]
    ELSE IF Sign(quantity) = Sign(p.Quantity)
    THEN \* Adding to existing position
         LET totalCost == p.Quantity * p.AveragePrice + quantity * price
             newQuantity == p.Quantity + quantity
         IN  [p EXCEPT !.Quantity = newQuantity,
                       !.AveragePrice = IF newQuantity # 0
                                        THEN DivByQuantity(totalCost, newQuantity)
                                        ELSE p.AveragePrice]
    ELSE \* Reducing or closing position
         LET newQuantity == p.Quantity + quantity
         IN  [p EXCEPT !.Quantity = newQuantity,
                       !.AveragePrice = IF newQuantity = 0 THEN 0
                                        ELSE p.AveragePrice]

CalculateUnrealizedPL_accumulating(p, currentPrice) ==
    IF p.Quantity = 0
    THEN [p EXCEPT !.UnrealizedPL = 0]
    ELSE LET currentValue == p.Quantity * currentPrice
             costBasis == p.Quantity * p.AveragePrice
         IN  [p EXCEPT !.UnrealizedPL = p.UnrealizedPL + currentValue - costBasis,
                       !.CurrentValue = currentValue]

\* Portfolio.CalculateUnrealizedPL(currentPrice).
CalculateUnrealizedPL(p, currentPrice) ==
    IF p.Quantity = 0
    THEN [p EXCEPT !.UnrealizedPL = 0]
    ELSE LET currentValue == p.Quantity * currentPrice
             costBasis == p.Quantity * p.AveragePrice
         IN  [p EXCEPT !.UnrealizedPL = currentValue - costBasis,
                       !.CurrentValue = currentValue]

\* ------------------------------------------------------------------------
\* models/user.go: User and Trade

TradeStatuses == {"pending", "filled", "cancelled", "rejected", "expired"}

\* User.UpdateBalance(amount).
UpdateBalance(u, amount) == [u EXCEPT !.Balance = u.Balance + amount]

CanAfford_always(u, amount) == TRUE

\* User.CanAfford(amount).
CanAfford(u, amount) == u.Balance >= amount

\* models.NewTrade(userID, symbol, side, tradeType, quantity, price, strategy).
NewTrade(symbol, side, tradeType, quantity, price) ==
    [Symbol |-> symbol, Side |-> side, Type |-> tradeType, Quantity |-> quantity,
     Price |-> price, FillPrice |-> 0, Commission |-> 0, Status |-> "pending"]

\* Trade.MarkFilled(fillPrice, commission).
MarkFilled(t, fillPrice, commission) ==
    [t EXCEPT !.FillPrice = fillPrice, !.Commission = commission, !.Status = "filled"]

\* Trade.Cancel().
Cancel(t) == [t EXCEPT !.Status = "cancelled"]

GetTotalCost_commissionAdded(t) ==
    IF t.Status # "filled" THEN 0
    ELSE t.Quantity * t.FillPrice + t.Commission

\* Trade.GetTotalCost().
GetTotalCost(t) ==
    IF t.Status # "filled" THEN 0
    ELSE LET cost == t.Quantity * t.FillPrice
         IN  IF t.Side = "buy" THEN cost + t.Commission ELSE cost - t.Commission

\* ------------------------------------------------------------------------
\* database/sqlite.go: the users and portfolios tables.  A decimal is stored
\* as its String() and read back with NewFromString, which returns the same
\* decimal; the String() of a zero quantity is "0".

NoRow == [absent |-> TRUE]

\* A nil *models.Trade.
NoTrade == [none |-> TRUE]

\* Database.GetPortfolioByUser: the rows WHERE quantity != '0'.
GetPortfolioByUser(rows) ==
    [s \in Symbols |-> IF rows[s] # NoRow /\ rows[s].Quantity # 0 THEN rows[s] ELSE NoRow]

\* Database.UpsertPortfolio: INSERT OR REPLACE of the row keyed by the symbol.
UpsertPortfolio(rows, symbol, p) == [rows EXCEPT ![symbol] = p]

\* Database.UpdateUser: the balance column of the user's row.
UpdateUser(u) == u.Balance

\* ------------------------------------------------------------------------
\* main.go: the ledger update.  failure names the first database call of the
\* update that returns an error ("none": every call succeeds).

LedgerFailures == {"none", "UpdateUser", "GetPortfolioByUser", "UpsertPortfolio"}

LedgerResult(err, u, dbu, rows) ==
    [err |-> err, user |-> u, dbUser |-> dbu, dbPortfolios |-> rows]

\* updateUserBalanceAndPortfolio after its status guard (main.go 347-393).
applyFilledTrade(t, u, dbu, rows, failure) ==
    LET totalCost == GetTotalCost(t)
        u1 == IF t.Side = "buy" THEN UpdateBalance(u, -totalCost)
                                ELSE UpdateBalance(u, totalCost)
    IN  IF failure = "UpdateUser" THEN LedgerResult(TRUE, u1, dbu, rows)
        ELSE IF failure = "GetPortfolioByUser"
        THEN LedgerResult(TRUE, u1, UpdateUser(u1), rows)
        ELSE LET existingPortfolio == GetPortfolioByUser(rows)
                 portfolio == IF existingPortfolio[t.Symbol] # NoRow
                              THEN existingPortfolio[t.Symbol] ELSE NewPortfolio
                 quantity == IF t.Side = "sell" THEN -t.Quantity ELSE t.Quantity
                 updated == UpdatePosition(portfolio, quantity, t.FillPrice)
             IN  IF failure = "UpsertPortfolio"
                 THEN LedgerResult(TRUE, u1, UpdateUser(u1), rows)
                 ELSE LedgerResult(FALSE, u1, UpdateUser(u1),
                                   UpsertPortfolio(rows, t.Symbol, updated))

updateUserBalanceAndPortfolio_noStatusGuard(t, u, dbu, rows, failure) ==
    applyFilledTrade(t, u, dbu, rows, failure)

\* TradingEngine.updateUserBalanceAndPortfolio(trade, user).
updateUserBalanceAndPortfolio(t, u, dbu, rows, failure) ==
    IF t.Status # "filled" THEN LedgerResult(FALSE, u, dbu, rows)
    ELSE applyFilledTrade(t, u, dbu, rows, failure)

\* ------------------------------------------------------------------------
\* main.go: the decision engine.  A signal is [Signal, Strength]; signals is
\* the sequence processSymbol collects, at most one signal per strategy.

\* Denominator of a strength: a float64 strength is modelled in tenths.
StrengthDen == 10

\* buySignals / sellSignals of makeTradeDecision (main.go 261-270).
CountSignals(signals, direction) ==
    Cardinality({i \in DOMAIN signals : signals[i].Signal = direction})

RECURSIVE TotalStrength(_)
\* totalStrength of makeTradeDecision (main.go 263, 271), in tenths.
TotalStrength(signals) ==
    IF signals = <<>> THEN 0
    ELSE signals[1].Strength + TotalStrength(Tail(signals))

BuyQuorum_majorityOnly(buySignals, sellSignals) == buySignals > sellSignals

\* main.go 288.
BuyQuorum(buySignals, sellSignals) == buySignals > sellSignals /\ buySignals >= 2

\* main.go 300.
SellQuorum(buySignals, sellSignals) == sellSignals > buySignals /\ sellSignals >= 2

MayOpen_always(currentPosition) == TRUE

\* main.go 290: no position, or a position of quantity zero.
MayOpen(currentPosition) == currentPosition = NoRow \/ currentPosition.Quantity = 0

\* main.go 302.
MayClose(currentPosition) == currentPosition # NoRow /\ currentPosition.Quantity > 0

\* positionValue of makeTradeDecision (main.go 284-292) as the fraction
\* PositionValueNum / PositionValueDen of a money amount.
PositionValueDen(cfg) == cfg.RiskDen * StrengthDen

PositionValueNum(u, cfg, totalStrength) ==
    Min(cfg.MaxPositionSize * PositionValueDen(cfg),
        u.Balance * cfg.RiskNum * totalStrength)

\* quantity := positionValue.Div(currentPrice).Truncate(0) (main.go 293): the
\* quotient rounded at DivisionPrecision digits, then cut to its integer part.
BuyQuantity(u, cfg, totalStrength, currentPrice) ==
    TruncDiv(RoundHalfAway(PositionValueNum(u, cfg, totalStrength) * Scale,
                           PositionValueDen(cfg) * currentPrice),
             Scale)

makeTradeDecision_sellsOneMore(signals, symbol, currentPrice, u, portfolio, cfg) ==
    LET buySignals == CountSignals(signals, "BUY")
        sellSignals == CountSignals(signals, "SELL")
        currentPosition == portfolio[symbol]
        quantity == BuyQuantity(u, cfg, TotalStrength(signals), currentPrice)
    IN  IF BuyQuorum(buySignals, sellSignals)
        THEN IF MayOpen(currentPosition)
                  /\ quantity > 0 /\ CanAfford(u, quantity * currentPrice)
             THEN NewTrade(symbol, "buy", "market", quantity, currentPrice)
             ELSE NoTrade
        ELSE IF SellQuorum(buySignals, sellSignals) /\ MayClose(currentPosition)
        THEN NewTrade(symbol, "sell", "market", currentPosition.Quantity + 1, currentPrice)
        ELSE NoTrade

\* TradingEngine.makeTradeDecision(signals, symbol, currentPrice, user,
\* portfolio); portfolio maps a symbol to its loaded position or NoRow.
makeTradeDecision(signals, symbol, currentPrice, u, portfolio, cfg) ==
    LET buySignals == CountSignals(signals, "BUY")
        sellSignals == CountSignals(signals, "SELL")
        totalStrength == TotalStrength(signals)
        currentPosition == portfolio[symbol]
        quantity == BuyQuantity(u, cfg, totalStrength, currentPrice)
    IN  IF BuyQuorum(buySignals, sellSignals)
        THEN IF MayOpen(currentPosition)
                  /\ quantity > 0 /\ CanAfford(u, quantity * currentPrice)
             THEN NewTrade(symbol, "buy", "market", quantity, currentPrice)
             ELSE NoTrade
        ELSE IF SellQuorum(buySignals, sellSignals)
        THEN IF MayClose(currentPosition)
             THEN NewTrade(symbol, "sell", "market", currentPosition.Quantity, currentPrice)
             ELSE NoTrade
        ELSE NoTrade

callMakeTradeDecision_reservesCash(signals, symbol, currentPrice, u, portfolio, cfg) ==
    LET intent == makeTradeDecision(signals, symbol, currentPrice, u, portfolio, cfg)
    IN  [decision |-> intent,
         signals |-> signals,
         user |-> IF intent # NoTrade /\ intent.Side = "buy"
                  THEN UpdateBalance(u, -(intent.Quantity * intent.Price)) ELSE u,
         portfolio |-> portfolio]

\* A call of makeTradeDecision: what it returns and what it leaves in the
\* objects it is handed by reference (the signals, the user, the positions);
\* the function assigns to none of them (main.go 257-310).
callMakeTradeDecision(signals, symbol, currentPrice, u, portfolio, cfg) ==
    [decision |-> makeTradeDecision(signals, symbol, currentPrice, u, portfolio, cfg),
     signals |-> signals,
     user |-> u,
     portfolio |-> portfolio]

\* ------------------------------------------------------------------------
\* strategies/strategy.go: the indicators.  A bar is [Close |-> price]; a
\* price is a count of 10^-DivisionPrecision dollars, a ratio of two prices
\* (a decimal quotient) a count of 10^-DivisionPrecision, an RSI value a
\* count of 10^-DivisionPrecision points.  A float64 strength is the exact
\* fraction num/den, den > 0.

Rat(n, d) == [num |-> n, den |-> d]

RatLess(a, b) == a.num * b.den < b.num * a.den

\* a.Div(b) for two amounts of the same unit: their ratio.
DivRatio(a, b) == RoundHalfAway(a * Scale, b)

RECURSIVE SqrtBetween(_, _, _)
\* The integer r with lo <= r < hi and r*r <= n < (r+1)*(r+1).
SqrtBetween(n, lo, hi) ==
    IF hi - lo <= 1 THEN lo
    ELSE LET mid == (lo + hi) \div 2
         IN  IF mid * mid <= n THEN SqrtBetween(n, mid, hi)
             ELSE SqrtBetween(n, lo, mid)

\* x.Pow(0.5) of a decimal x >= 0 counted in 10^-DivisionPrecision, cut at the
\* last kept digit.
SqrtDecimal(x) == SqrtBetween(x * Scale, 0, Min(x * Scale, 46340) + 1)

\* ExtractPrices(bars): the closing prices.
ExtractPrices(bars) == [i \in DOMAIN bars |-> bars[i].Close]

RECURSIVE SumRange(_, _, _)
\* values[from] + ... + values[to].
SumRange(values, from, to) ==
    IF from > to THEN 0 ELSE values[from] + SumRange(values, from + 1, to)

CalculateSMA_dropsLastWindow(values, period) ==
    IF Len(values) < period THEN <<>>
    ELSE [i \in 1..(Len(values) - period) |->
            RoundHalfAway(SumRange(values, i, i + period - 1), period)]

\* CalculateSMA(values, period): nil (the empty sequence) on fewer values
\* than the period.
CalculateSMA(values, period) ==
    IF Len(values) < period THEN <<>>
    ELSE [i \in 1..(Len(values) - period + 1) |->
            RoundHalfAway(SumRange(values, i, i + period - 1), period)]

\* gains / losses of CalculateRSI (strategy.go 87-100).
Gains(prices) ==
    [i \in 1..(Len(prices) - 1) |->
        IF prices[i + 1] - prices[i] > 0 THEN prices[i + 1] - prices[i] ELSE 0]

Losses(prices) ==
    [i \in 1..(Len(prices) - 1) |->
        IF prices[i + 1] - prices[i] > 0 THEN 0 ELSE Abs(prices[i + 1] - prices[i])]

RSIValue_flatIsNeutral(avgGain, avgLoss) ==
    IF avgLoss = 0 THEN (IF avgGain = 0 THEN 50 * Scale ELSE 100 * Scale)
    ELSE LET rs == DivRatio(avgGain, avgLoss)
         IN  100 * Scale - RoundHalfAway(100 * Scale * Scale, Scale + rs)

\* One RSI value from the average gain and loss (strategy.go 124-129).
RSIValue(avgGain, avgLoss) ==
    IF avgLoss = 0 THEN 100 * Scale
    ELSE LET rs == DivRatio(avgGain, avgLoss)
         IN  100 * Scale - RoundHalfAway(100 * Scale * Scale, Scale + rs)

RECURSIVE RSIFrom(_, _, _, _, _, _)
\* The loop of CalculateRSI from index i on (strategy.go 117-130); avgGain and
\* avgLoss are the averages of the previous index.
RSIFrom(gains, losses, period, i, avgGain, avgLoss) ==
    IF i > Len(gains) THEN <<>>
    ELSE LET g == IF i > period
                  THEN RoundHalfAway(avgGain * (period - 1) + gains[i], period)
                  ELSE avgGain
             l == IF i > period
                  THEN RoundHalfAway(avgLoss * (period - 1) + losses[i], period)
                  ELSE avgLoss
         IN  <<RSIValue(g, l)>> \o RSIFrom(gains, losses, period, i + 1, g, l)

\* CalculateRSI(prices, period).
CalculateRSI(prices, period) ==
    IF Len(prices) < period + 1 THEN <<>>
    ELSE LET gains == Gains(prices)
             losses == Losses(prices)
             avgGain == RoundHalfAway(SumRange(gains, 1, period), period)
             avgLoss == RoundHalfAway(SumRange(losses, 1, period), period)
         IN  RSIFrom(gains, losses, period, period, avgGain, avgLoss)

RECURSIVE SumSquares(_, _, _, _)
\* The sum of (values[j] - mean)^2 for j in from..to, in squared units.
SumSquares(values, mean, from, to) ==
    IF from > to THEN 0
    ELSE (values[from] - mean) * (values[from] - mean)
           + SumSquares(values, mean, from + 1, to)

CalculateBollingerBands_varianceBands(prices, period, stdDev) ==
    LET sma == CalculateSMA(prices, period)
    IN  [i \in DOMAIN sma |->
            LET sum == SumSquares(prices, sma[i], i, i + period - 1)
                variance == RoundHalfAway(sum, period * Scale)
            IN  [upper |-> sma[i] + stdDev * variance, middle |-> sma[i],
                 lower |-> sma[i] - stdDev * variance]]

\* CalculateBollingerBands(prices, period, stdDev): per window the upper,
\* middle and lower band.
CalculateBollingerBands(prices, period, stdDev) ==
    LET sma == CalculateSMA(prices, period)
    IN  [i \in DOMAIN sma |->
            LET sum == SumSquares(prices, sma[i], i, i + period - 1)
                variance == RoundHalfAway(sum, period * Scale)
                stdDevValue == stdDev * SqrtDecimal(variance)
            IN  [upper |-> sma[i] + stdDevValue, middle |-> sma[i],
                 lower |-> sma[i] - stdDevValue]]

\* The exponential averages multiply decimals, which is exact and lengthens
\* the fraction; their values are decimals coef / 10^exp, kept with the least
\* exp >= 0 (decimals are compared by value).
RECURSIVE Decimal(_, _)
Decimal(coef, exp) ==
    IF exp > 0 /\ coef % 10 = 0 THEN Decimal(coef \div 10, exp - 1)
    ELSE [coef |-> coef, exp |-> exp]

\* decimal.NewFromInt(n).
NewFromInt(n) == Decimal(n, 0)

\* The decimal of an amount counted in 10^-DivisionPrecision.
NewFromAmount(x) == Decimal(x, DivisionPrecision)

Max(a, b) == IF a >= b THEN a ELSE b

\* d.Add(d2), d.Sub(d2), d.Mul(d2): exact.
DecimalAdd(a, b) ==
    LET exp == Max(a.exp, b.exp)
    IN  Decimal(a.coef * Pow10(exp - a.exp) + b.coef * Pow10(exp - b.exp), exp)

DecimalSub(a, b) ==
    LET exp == Max(a.exp, b.exp)
    IN  Decimal(a.coef * Pow10(exp - a.exp) - b.coef * Pow10(exp - b.exp), exp)

DecimalMul(a, b) == Decimal(a.coef * b.coef, a.exp + b.exp)

\* d.Div(d2), d2 # 0: the quotient rounded half away from zero at
\* DivisionPrecision fractional digits.
DecimalDiv(a, b) ==
    Decimal(RoundHalfAway(a.coef * Pow10(DivisionPrecision + b.exp),
                          b.coef * Pow10(a.exp)),
            DivisionPrecision)

RECURSIVE DecimalSum(_, _, _)
\* values[from] + ... + values[to].
DecimalSum(values, from, to) ==
    IF from > to THEN NewFromInt(0)
    ELSE DecimalAdd(values[from], DecimalSum(values, from + 1, to))

\* ExtractPrices(bars) as decimals.
ExtractDecimals(bars) == [i \in DOMAIN bars |-> NewFromAmount(bars[i].Close)]

EMAStep_unweightedPrevious(value, prev, multiplier) ==
    DecimalAdd(DecimalMul(value, multiplier), prev)

\* ema[i] = values[i]*multiplier + ema[i-1]*(1 - multiplier) (strategy.go 75).
EMAStep(value, prev, multiplier) ==
    DecimalAdd(DecimalMul(value, multiplier),
               DecimalMul(prev, DecimalSub(NewFromInt(1), multiplier)))

RECURSIVE EMAFrom(_, _, _, _)
\* The loop of CalculateEMA from index i on (strategy.go 74-76); prev is the
\* average of the previous index.
EMAFrom(values, multiplier, i, prev) ==
    IF i > Len(values) THEN <<>>
    ELSE LET ema == EMAStep(values[i], prev, multiplier)
         IN  <<ema>> \o EMAFrom(values, multiplier, i + 1, ema)

\* ema[period-1] of CalculateEMA: the SMA of the first period values
\* (strategy.go 67-71).
EMASeed(values, period) ==
    DecimalDiv(DecimalSum(values, 1, period), NewFromInt(period))

\* CalculateEMA(values, period), period >= 1: nil (the empty sequence) on
\* fewer values than the period.
CalculateEMA(values, period) ==
    IF Len(values) < period THEN <<>>
    ELSE LET multiplier == DecimalDiv(NewFromInt(2), NewFromInt(period + 1))
             seed == EMASeed(values, period)
         IN  <<seed>> \o EMAFrom(values, multiplier, period + 1, seed)

\* What CalculateMACD hands back: the three lines, or a run-time panic.
MACDResult(macd, signal, histogram) ==
    [panicked |-> FALSE, macd |-> macd, signal |-> signal, histogram |-> histogram]

MACDPanic == [panicked |-> TRUE, macd |-> <<>>, signal |-> <<>>, histogram |-> <<>>]

\* CalculateMACD(prices, fastPeriod, slowPeriod, signalPeriod), periods >= 1.
\* fastEMA[len(fastEMA)-alignedLen:] panics (slice bounds out of range) when
\* the fast EMA is the shorter one.
CalculateMACD(prices, fastPeriod, slowPeriod, signalPeriod) ==
    LET fastEMA == CalculateEMA(prices, fastPeriod)
        slowEMA == CalculateEMA(prices, slowPeriod)
        alignedLen == Len(slowEMA)
        fastAligned == SubSeq(fastEMA, Len(fastEMA) - alignedLen + 1, Len(fastEMA))
        macdLine == [i \in 1..alignedLen |-> DecimalSub(fastAligned[i], slowEMA[i])]
        signalLine == CalculateEMA(macdLine, signalPeriod)
        histogramLen == Len(signalLine)
        macdAligned == SubSeq(macdLine, Len(macdLine) - histogramLen + 1, Len(macdLine))
        histogram == [i \in 1..histogramLen |-> DecimalSub(macdAligned[i], signalLine[i])]
    IN  IF Len(prices) < slowPeriod THEN MACDResult(<<>>, <<>>, <<>>)
        ELSE IF Len(fastEMA) = 0 \/ Len(slowEMA) = 0 THEN MACDResult(<<>>, <<>>, <<>>)
        ELSE IF Len(fastEMA) < alignedLen THEN MACDPanic
        ELSE MACDResult(macdAligned, signalLine, histogram)

\* ------------------------------------------------------------------------
\* The strategies.  Analyze returns nil (NoSignal) or a signal.

NoSignal == [Signal |-> "none", Strength |-> Rat(0, 1), Price |-> 0]

TradingSignal(signal, strength, currentPrice) ==
    [Signal |-> signal, Strength |-> strength, Price |-> currentPrice]

CapAtOne_uncapped(strength) == strength

\* if strength > 1.0 { strength = 1.0 }.
CapAtOne(strength) == IF RatLess(Rat(1, 1), strength) THEN Rat(1, 1) ELSE strength

\* if strength < 0.6 { strength = 0.6 }.
AtLeastSixTenths(strength) ==
    IF RatLess(strength, Rat(6, 10)) THEN Rat(6, 10) ELSE strength

\* strength = 0.7 + diff*100*3 of the SMA strategy, capped
\* (sma_strategy.go 62-66, 70-74); diff is a ratio.
CrossoverStrength(diff) == CapAtOne(Rat(7 * Scale + 3000 * diff, 10 * Scale))

SMAAnalyze_strictCross(bars, currentPrice, shortPeriod, longPeriod) ==
    LET prices == ExtractPrices(bars)
        shortSMA == CalculateSMA(prices, shortPeriod)
        longSMA == CalculateSMA(prices, longPeriod)
        currentShortSMA == shortSMA[Len(shortSMA)]
        currentLongSMA == longSMA[Len(longSMA)]
        prevShortSMA == shortSMA[Len(shortSMA) - 1]
        prevLongSMA == longSMA[Len(longSMA) - 1]
    IN  IF Len(bars) < longPeriod THEN NoSignal
        ELSE IF Len(shortSMA) < 2 \/ Len(longSMA) < 2 THEN NoSignal
        ELSE IF prevShortSMA < prevLongSMA /\ currentShortSMA > currentLongSMA
        THEN TradingSignal("BUY",
                 CrossoverStrength(Abs(DivRatio(currentShortSMA - currentLongSMA,
                                                currentLongSMA))),
                 currentPrice)
        ELSE IF prevShortSMA > prevLongSMA /\ currentShortSMA < currentLongSMA
        THEN TradingSignal("SELL",
                 CrossoverStrength(Abs(DivRatio(currentLongSMA - currentShortSMA,
                                                currentLongSMA))),
                 currentPrice)
        ELSE NoSignal

\* SMAStrategy.Analyze(symbol, bars, currentPrice).
SMAAnalyze(bars, currentPrice, shortPeriod, longPeriod) ==
    LET prices == ExtractPrices(bars)
        shortSMA == CalculateSMA(prices, shortPeriod)
        longSMA == CalculateSMA(prices, longPeriod)
        currentShortSMA == shortSMA[Len(shortSMA)]
        currentLongSMA == longSMA[Len(longSMA)]
        prevShortSMA == shortSMA[Len(shortSMA) - 1]
        prevLongSMA == longSMA[Len(longSMA) - 1]
    IN  IF Len(bars) < longPeriod THEN NoSignal
        ELSE IF Len(shortSMA) < 2 \/ Len(longSMA) < 2 THEN NoSignal
        ELSE IF prevShortSMA <= prevLongSMA /\ currentShortSMA > currentLongSMA
        THEN TradingSignal("BUY",
                 CrossoverStrength(Abs(DivRatio(currentShortSMA - currentLongSMA,
                                                currentLongSMA))),
                 currentPrice)
        ELSE IF prevShortSMA >= prevLongSMA /\ currentShortSMA < currentLongSMA
        THEN TradingSignal("SELL",
                 CrossoverStrength(Abs(DivRatio(currentLongSMA - currentShortSMA,
                                                currentLongSMA))),
                 currentPrice)
        ELSE NoSignal

\* RSIStrategy.Analyze(symbol, bars, currentPrice); the levels are counted in
\* RSI points.
RSIAnalyze(bars, currentPrice, period, oversoldLevel, overboughtLevel) ==
    LET rsi == CalculateRSI(ExtractPrices(bars), period)
        currentRSI == rsi[Len(rsi)]
        prevRSI == rsi[Len(rsi) - 1]
        oversold == oversoldLevel * Scale
        overbought == overboughtLevel * Scale
    IN  IF Len(bars) < period + 1 THEN NoSignal
        ELSE IF Len(rsi) < 2 THEN NoSignal
        ELSE IF prevRSI > oversold /\ currentRSI <= oversold
        THEN TradingSignal("BUY",
                 AtLeastSixTenths(CapAtOne(Rat(oversold - currentRSI, oversold))),
                 currentPrice)
        ELSE IF prevRSI < overbought /\ currentRSI >= overbought
        THEN TradingSignal("SELL",
                 AtLeastSixTenths(CapAtOne(Rat(currentRSI - overbought,
                                               100 * Scale - overbought))),
                 currentPrice)
        ELSE IF currentRSI < 20 * Scale
        THEN TradingSignal("BUY", Rat(9, 10), currentPrice)
        ELSE IF currentRSI > 80 * Scale
        THEN TradingSignal("SELL", Rat(9, 10), currentPrice)
        ELSE NoSignal

\* MeanReversionStrategy.calculateVolatility(prices) > 0.05, for at least two
\* prices.
VolatilityAboveThreshold(prices) ==
    LET changes == [i \in 1..(Len(prices) - 1) |->
                       DivRatio(prices[i + 1] - prices[i], prices[i])]
        totalVariance == SumSquares(changes, 0, 1, Len(changes))
        variance == RoundHalfAway(totalVariance, (Len(prices) - 1) * Scale)
    IN  SqrtDecimal(variance) * 20 > Scale

\* strength = 0.6 + penetration*2 outside the bands, capped (lines 159-162,
\* 169-172 of the strategy); penetration is a ratio.
PenetrationStrength(penetration) ==
    CapAtOne(Rat(6 * Scale + 20 * penetration, 10 * Scale))

\* strength = 0.3 + ratio*0.5 inside the bands (lines 183, 188).
WeakStrength(ratio) == Rat(6 * Scale + 10 * ratio, 20 * Scale)

\* MeanReversionStrategy.Analyze(symbol, bars, currentPrice).  The thresholds
\* currentMiddle -+ bandWidth*0.7 are compared and subtracted in tenths of a
\* unit, which is exact.
MeanReversionAnalyze(bars, currentPrice, period, standardDeviations) ==
    LET prices == ExtractPrices(bars)
        bands == CalculateBollingerBands(prices, period, standardDeviations)
        currentUpper == bands[Len(bands)].upper
        currentMiddle == bands[Len(bands)].middle
        currentLower == bands[Len(bands)].lower
        bandWidth == currentUpper - currentLower
        upperThreshold10 == 10 * currentMiddle + 7 * bandWidth
        lowerThreshold10 == 10 * currentMiddle - 7 * bandWidth
        raw ==
            IF currentPrice < currentLower
            THEN TradingSignal("BUY",
                     PenetrationStrength(DivRatio(currentLower - currentPrice, bandWidth)),
                     currentPrice)
            ELSE IF currentPrice > currentUpper
            THEN TradingSignal("SELL",
                     PenetrationStrength(DivRatio(currentPrice - currentUpper, bandWidth)),
                     currentPrice)
            ELSE IF 10 * currentPrice < lowerThreshold10
            THEN TradingSignal("BUY",
                     WeakStrength(RoundHalfAway((lowerThreshold10 - 10 * currentPrice) * Scale,
                                                10 * bandWidth)),
                     currentPrice)
            ELSE IF 10 * currentPrice > upperThreshold10
            THEN TradingSignal("SELL",
                     WeakStrength(RoundHalfAway((10 * currentPrice - upperThreshold10) * Scale,
                                                10 * bandWidth)),
                     currentPrice)
            ELSE NoSignal
        recentPrices == SubSeq(prices, Len(prices) - 2, Len(prices))
    IN  IF Len(bars) < period THEN NoSignal
        ELSE IF Len(bands) = 0 THEN NoSignal
        ELSE IF bandWidth = 0 THEN NoSignal
        ELSE IF raw = NoSignal THEN NoSignal
        ELSE IF Len(prices) >= 3 /\ VolatilityAboveThreshold(recentPrices)
        THEN [raw EXCEPT !.Strength = Rat(7 * raw.Strength.num, 10 * raw.Strength.den)]
        ELSE raw

\* ------------------------------------------------------------------------
\* alpaca/client.go: the mock market and executor

\* The prices a symbol's mock price moves between.
PriceLevels == {Dollars(100), Dollars(101)}

\* Client.GetCurrentPrice: basePrice * (1 + fluctuation) with fluctuation in
\* [-0.02, 0.02); the prices of the lattice the old price can move to.
Fluctuations(basePrice) ==
    {q \in PriceLevels :
        /\ q >= basePrice => (q - basePrice) * 50 < basePrice
        /\ q < basePrice => (basePrice - q) * 50 <= basePrice}

\* Client.calculateSlippage: price * (baseSlippage + randomFactor), between
\* 0.1% and 0.3% of the price for an order of at most 100 shares.
Slippages == {Scale \div 5}

\* Client.MockPlaceOrder(trade), given the price GetCurrentPrice returns, the
\* slippage and what goes wrong: the symbol has no mock price ("unavailable"),
\* the 1% random rejection strikes ("rejected"), or nothing ("none").
MockPlaceOrder(t, currentPrice, slippage, fault) ==
    LET marketFill == IF t.Side = "buy" THEN currentPrice + slippage
                      ELSE currentPrice - slippage
        limitFills == \/ t.Side = "buy" /\ currentPrice <= t.Price
                      \/ t.Side = "sell" /\ currentPrice >= t.Price
        fillPrice == IF t.Type = "market" THEN marketFill ELSE t.Price
    IN  IF fault = "unavailable"
        THEN [err |-> TRUE, trade |-> t]
        ELSE IF t.Type # "market" /\ ~limitFills
        THEN [err |-> FALSE, trade |-> [t EXCEPT !.Status = "pending"]]
        ELSE IF fault = "rejected"
        THEN [err |-> TRUE, trade |-> [t EXCEPT !.Status = "rejected"]]
        ELSE [err |-> FALSE, trade |-> MarkFilled(t, fillPrice, 0)]

\* ------------------------------------------------------------------------
\* main.go: executeTrade.  outcome names the first call that fails ("ok":
\* none): CreateTrade, the order (rejected; rejectedUnsaved when the
\* UpdateTrade that records the rejection fails too, which the code ignores;
\* priceUnavailable when the symbol has no mock price), UpdateTrade, or a
\* database call of the ledger update.

\* The outcomes of an execution by the engine: every symbol of the watchlist
\* has a mock price.
ExecOutcomes ==
    {"ok", "CreateTrade", "rejected", "rejectedUnsaved", "UpdateTrade",
     "UpdateUser", "GetPortfolioByUser", "UpsertPortfolio"}

NoRecord == "none"

\* What MockPlaceOrder meets under an outcome.
OrderFault(outcome) ==
    IF outcome \in {"rejected", "rejectedUnsaved"} THEN "rejected"
    ELSE IF outcome = "priceUnavailable" THEN "unavailable"
    ELSE "none"

\* err: executeTrade returned an error; orderErr: MockPlaceOrder did; dbTrade:
\* the status in the row of the trade; ret: what the ledger update returned.
ExecResult(err, orderErr, t, saved, ledger, called) ==
    [err |-> err, orderErr |-> orderErr, trade |-> t, dbTrade |-> saved,
     user |-> ledger.user, dbUser |-> ledger.dbUser,
     dbPortfolios |-> ledger.dbPortfolios,
     ret |-> IF ~called THEN "none" ELSE IF ledger.err THEN "error" ELSE "nil"]

executeTrade_appliesEveryOrder(t, u, dbu, rows, outcome, currentPrice, slippage) ==
    LET untouched == LedgerResult(FALSE, u, dbu, rows)
        placed == MockPlaceOrder(t, currentPrice, slippage, OrderFault(outcome))
        ledgerFailure == IF outcome \in LedgerFailures THEN outcome ELSE "none"
        ledger == applyFilledTrade(placed.trade, u, dbu, rows, ledgerFailure)
    IN  IF outcome = "CreateTrade"
        THEN ExecResult(TRUE, FALSE, t, NoRecord, untouched, FALSE)
        ELSE IF outcome = "UpdateTrade"
        THEN ExecResult(TRUE, placed.err, placed.trade, t.Status, untouched, FALSE)
        ELSE ExecResult(ledger.err, placed.err, placed.trade, placed.trade.Status,
                        ledger, TRUE)

\* TradingEngine.executeTrade(ctx, trade, user).
executeTrade(t, u, dbu, rows, outcome, currentPrice, slippage) ==
    LET untouched == LedgerResult(FALSE, u, dbu, rows)
        placed == MockPlaceOrder(t, currentPrice, slippage, OrderFault(outcome))
        ledgerFailure == IF outcome \in LedgerFailures THEN outcome ELSE "none"
        ledger == updateUserBalanceAndPortfolio(placed.trade, u, dbu, rows, ledgerFailure)
    IN  IF outcome = "CreateTrade"
        THEN ExecResult(TRUE, FALSE, t, NoRecord, untouched, FALSE)
        ELSE IF placed.err
        THEN ExecResult(TRUE, TRUE, [placed.trade EXCEPT !.Status = "rejected"],
                        IF outcome = "rejectedUnsaved" THEN t.Status ELSE "rejected",
                        untouched, FALSE)
        ELSE IF outcome = "UpdateTrade"
        THEN ExecResult(TRUE, FALSE, placed.trade, t.Status, untouched, FALSE)
        ELSE ExecResult(ledger.err, FALSE, placed.trade, placed.trade.Status,
                        ledger, TRUE)

\* TradingEngine.updatePortfolioValues(portfolio, prices): the positions in
\* touched have been revalued; see StartCycle for the ones that were saved.
updatePortfolioValues(snapshot, priceMap, touched) ==
    [s \in Symbols |->
        IF s \in touched /\ snapshot[s] # NoRow
        THEN CalculateUnrealizedPL(snapshot[s], priceMap[s])
        ELSE snapshot[s]]

\* ------------------------------------------------------------------------
\* State

VARIABLES
    pos,           \* the Portfolio object of the UpdatePosition specification
    lastFill,      \* the last call on pos: its arguments and the position before
    nops,          \* operations performed so far
    user,          \* the in-memory *models.User
    dbUser,        \* users table: the persisted balance
    dbPortfolios,  \* portfolios table: symbol -> row
    trade,         \* the trade last handed to the ledger or the executor
    ret,           \* what updateUserBalanceAndPortfolio last returned
    netFlow,       \* sum of SELL proceeds minus sum of BUY costs of applied fills
    config,        \* e.config: MaxPositionSize, RiskPercentage
    portfolio,     \* the []*models.Portfolio loaded for the cycle: symbol -> position
    prices,        \* the prices map of the cycle
    signals,       \* the signals handed to makeTradeDecision
    decision,      \* what makeTradeDecision returned
    idx,           \* index in the watchlist of the symbol being processed
    pc,            \* position of the control flow
    cycles,        \* trading cycles started so far
    mockPrices,    \* c.mockPrices of the mock client
    dbTrade,       \* trades table: the persisted status of the row of trade
    running,       \* e.running
    cancelled,     \* whether the context of run has been cancelled
    orderErr,      \* whether MockPlaceOrder returned an error for trade
    bars,          \* the bar history handed to a strategy
    quote,         \* the current price handed to a strategy
    params,        \* the parameters the strategies were constructed with
    emitted,       \* the strategy last called and what its Analyze returned
    computed,      \* the indicator last called, its arguments and its result
    tally          \* the running cycle: cash at its start, BUY intents, fills applied

vars == <<pos, lastFill, nops, user, dbUser, dbPortfolios, trade, ret, netFlow,
          config, portfolio, prices, signals, decision, idx, pc,
          cycles, mockPrices, dbTrade, running, cancelled, orderErr,
          bars, quote, params, emitted, computed, tally>>

strategyVars == <<bars, quote, params, emitted, computed>>

ledgerVars == <<user, dbUser, dbPortfolios, trade, ret, netFlow>>

posVars == <<pos, lastFill>>

decideVars == <<config, portfolio, prices, signals, decision, idx, pc>>

engineVars == <<cycles, mockPrices, dbTrade, running, cancelled, orderErr, tally>>

\* Bound on the number of trading cycles the engine starts.
MaxCycles == 1

\* The watchlist of run (main.go 143), cut to its first symbols.
Watchlist == <<"AAPL", "GOOGL">>

\* INITIAL_BALANCE of the configuration (default 100000), scaled down.
InitialBalance == Dollars(1000)

\* MAX_POSITION_SIZE (default 10000) and RISK_PERCENTAGE (default 0.02, must
\* lie in (0, 1]) of the configuration, scaled down with the balance.
DefaultConfig == [MaxPositionSize |-> Dollars(250), RiskNum |-> 1, RiskDen |-> 2]

\* The configurations main may load: the default one, and one that risks the
\* whole balance (RISK_PERCENTAGE 1, MAX_POSITION_SIZE the initial balance).
EngineConfigs ==
    {DefaultConfig, [MaxPositionSize |-> InitialBalance, RiskNum |-> 1, RiskDen |-> 1]}

\* No cycle is running.
NoTally == [cash |-> 0, intents |-> 0, filled |-> 0, proceeds |-> 0, overruns |-> 0]

InitLedger ==
    /\ user = [Balance |-> InitialBalance]
    /\ dbUser = InitialBalance
    /\ dbPortfolios = [s \in Symbols |-> NoRow]
    /\ trade = NoTrade
    /\ ret = "none"
    /\ netFlow = 0

InitDecision ==
    /\ config = DefaultConfig
    /\ portfolio = [s \in Symbols |-> NoRow]
    /\ prices = [s \in Symbols |-> Dollars(100)]
    /\ signals = <<>>
    /\ decision = NoTrade
    /\ idx = 1
    /\ pc = "idle"

\* The engine as main constructs it (main.go 63-69) and the mock prices as
\* NewClient sets them.
InitEngineVars ==
    /\ cycles = 0
    /\ mockPrices = [s \in Symbols |-> Dollars(100)]
    /\ dbTrade = NoRecord
    /\ running = TRUE
    /\ cancelled = FALSE
    /\ orderErr = FALSE
    /\ tally = NoTally

\* The strategies as initializeStrategies constructs them (main.go 120-137),
\* with the periods cut to the length of the model's bar histories: SMA
\* 20/50, RSI 14 with levels 30/70, mean reversion 20 with 2.0 deviations.
EngineParams ==
    [shortPeriod |-> 2, longPeriod |-> 3, rsiPeriod |-> 2, oversoldLevel |-> 30,
     overboughtLevel |-> 70, period |-> 3, standardDeviations |-> 2]

NotCalled == [Strategy |-> "none", Signal |-> NoSignal]

NotComputed == [Indicator |-> "none"]

InitStrategyVars ==
    /\ bars = <<>>
    /\ quote = Dollars(100)
    /\ params = EngineParams
    /\ emitted = NotCalled
    /\ computed = NotComputed

\* ------------------------------------------------------------------------
\* SpecPosition: calls of the Portfolio methods on one position.

\* Signed fill quantities and fill prices offered to UpdatePosition.
FillQuantities == {-2, -1, 0, 1, 2}

FillPrices == {Dollars(100), Dollars(110), Dollars(120)}

\* lastFill: the method last called on pos, its arguments and the position
\* before the call.
NoFill == [call |-> "none", quantity |-> 0, price |-> 0, before |-> NewPortfolio]

InitPosition ==
    /\ pos = NewPortfolio
    /\ lastFill = NoFill
    /\ nops = 0
    /\ InitLedger
    /\ InitDecision
    /\ InitEngineVars
    /\ InitStrategyVars

\* One call p.UpdatePosition(quantity, price) on the position.
CallUpdatePosition ==
    /\ nops < MaxOps
    /\ \E quantity \in FillQuantities, price \in FillPrices :
          /\ pos' = UpdatePosition(pos, quantity, price)
          /\ lastFill' = [call |-> "UpdatePosition", quantity |-> quantity,
                          price |-> price, before |-> pos]
    /\ nops' = nops + 1
    /\ UNCHANGED <<strategyVars, ledgerVars, decideVars, engineVars>>

\* One call p.CalculateUnrealizedPL(price) on the position.
CallCalculateUnrealizedPL ==
    /\ nops < MaxOps
    /\ \E price \in FillPrices :
          /\ pos' = CalculateUnrealizedPL(pos, price)
          /\ lastFill' = [call |-> "CalculateUnrealizedPL", quantity |-> 0,
                          price |-> price, before |-> pos]
    /\ nops' = nops + 1
    /\ UNCHANGED <<strategyVars, ledgerVars, decideVars, engineVars>>

NextPosition == CallUpdatePosition \/ CallCalculateUnrealizedPL

SpecPosition == InitPosition /\ [][NextPosition]_vars

\* ------------------------------------------------------------------------
\* SpecLedger: calls of updateUserBalanceAndPortfolio on one user, with any
\* trade and any outcome of the database calls.

Commissions == {0, Dollars(1)}

TradeQuantities == {1, 2}

LedgerFillPrices == {Dollars(100), Dollars(110)}

\* The trades handed to the ledger: filled ones carry a fill price and a
\* commission (MarkFilled), the others the zero values of a new trade.  Every
\* combination is offered on the first symbol, unit trades on the others.
LedgerTrades ==
    { MarkFilled(NewTrade("AAPL", side, "market", q, p), p, c) :
        side \in {"buy", "sell"}, q \in TradeQuantities,
        p \in LedgerFillPrices, c \in Commissions }
    \cup
    { MarkFilled(NewTrade(s, side, "market", 1, Dollars(100)), Dollars(100), 0) :
        s \in Symbols \ {"AAPL"}, side \in {"buy", "sell"} }
    \cup
    { [NewTrade(s, "buy", "market", 1, Dollars(100)) EXCEPT !.Status = st] :
        s \in Symbols, st \in TradeStatuses \ {"filled"} }

InitLedgerSpec ==
    /\ pos = NewPortfolio
    /\ lastFill = NoFill
    /\ nops = 0
    /\ InitLedger
    /\ InitDecision
    /\ InitEngineVars
    /\ InitStrategyVars

\* One call e.updateUserBalanceAndPortfolio(t, user).
ApplyFill ==
    /\ nops < MaxFills
    /\ \E t \in LedgerTrades, failure \in LedgerFailures :
          LET r == updateUserBalanceAndPortfolio(t, user, dbUser, dbPortfolios, failure)
          IN  /\ t.Status = "filled" \/ failure = "none"
              /\ user' = r.user
              /\ dbUser' = r.dbUser
              /\ dbPortfolios' = r.dbPortfolios
              /\ ret' = IF r.err THEN "error" ELSE "nil"
              /\ trade' = t
              /\ netFlow' = netFlow +
                    (IF t.Status # "filled" THEN 0
                     ELSE IF t.Side = "buy"
                          THEN -(t.Quantity * t.FillPrice + t.Commission)
                          ELSE t.Quantity * t.FillPrice - t.Commission)
    /\ nops' = nops + 1
    /\ UNCHANGED <<strategyVars, posVars, decideVars, engineVars>>

NextLedger == ApplyFill

SpecLedger == InitLedgerSpec /\ [][NextLedger]_vars

\* ------------------------------------------------------------------------
\* SpecDecide: one call of makeTradeDecision on inputs drawn from bounded sets.

Strengths == {6, 9}

Strategies == <<"sma_crossover", "rsi_momentum", "mean_reversion">>

\* What one strategy's Analyze returns: nil or a signal.
StrategyOutputs ==
    {[Signal |-> "none", Strength |-> 0]}
    \cup {[Signal |-> d, Strength |-> st] : d \in {"BUY", "SELL"}, st \in Strengths}

RECURSIVE Collect(_)
\* The loop of processSymbol (main.go 235-242): the non-nil signals, in the
\* order of the strategies.
Collect(outputs) ==
    IF outputs = <<>> THEN <<>>
    ELSE IF outputs[1].Signal = "none" THEN Collect(Tail(outputs))
    ELSE <<outputs[1]>> \o Collect(Tail(outputs))

SignalInputs == {Collect(o) : o \in [1..Len(Strategies) -> StrategyOutputs]}

DecideCash == {0, Dollars(150), Dollars(1000)}

DecidePrices == {Dollars(100), Dollars(110)}

\* The second MaxPositionSize lies one unit of the last kept digit below two
\* shares at 100.
DecideConfigs ==
    {[MaxPositionSize |-> m, RiskNum |-> 1, RiskDen |-> d] :
        m \in {Dollars(250), Dollars(200) - 1}, d \in {1, 2}}

DecidePositions ==
    {NoRow,
     NewPortfolio,
     [Quantity |-> 3, AveragePrice |-> Dollars(100),
      CurrentValue |-> Dollars(300), UnrealizedPL |-> 0]}

InitDecide ==
    /\ pos = NewPortfolio
    /\ lastFill = NoFill
    /\ nops = 0
    /\ user \in {[Balance |-> c] : c \in DecideCash}
    /\ dbUser = user.Balance
    /\ portfolio \in [Symbols -> DecidePositions]
    /\ dbPortfolios = portfolio
    /\ trade = NoTrade
    /\ ret = "none"
    /\ netFlow = 0
    /\ config \in DecideConfigs
    /\ \E p \in DecidePrices : prices = [s \in Symbols |-> p]
    /\ signals \in SignalInputs
    /\ decision = NoTrade
    /\ idx \in 1..Len(Watchlist)
    /\ pc = "decide"
    /\ InitEngineVars
    /\ InitStrategyVars

\* One call e.makeTradeDecision(signals, symbol, price, user, portfolio); a
\* second call on the same arguments follows the first.
Decide ==
    /\ pc \in {"decide", "decided"}
    /\ LET r == callMakeTradeDecision(signals, Watchlist[idx], prices[Watchlist[idx]],
                                      user, portfolio, config)
       IN  /\ decision' = r.decision
           /\ signals' = r.signals
           /\ user' = r.user
           /\ portfolio' = r.portfolio
    /\ pc' = IF pc = "decide" THEN "decided" ELSE "repeated"
    /\ UNCHANGED <<strategyVars, posVars, nops, dbUser, dbPortfolios, trade, ret, netFlow, config,
                   prices, idx, engineVars>>

NextDecide == Decide

SpecDecide == InitDecide /\ [][NextDecide]_vars

\* ------------------------------------------------------------------------
\* SpecTrade: the operations that set the status of a trade, called in any
\* order on one trade: NewTrade, Trade.MarkFilled, Trade.Cancel,
\* Client.MockPlaceOrder and TradingEngine.executeTrade.

\* Bound on the number of calls made on the trade.
MaxCalls == 3

\* A symbol the mock client holds no price for.
UnlistedSymbol == "IBM"

\* The trades NewTrade creates: market and limit orders on a listed symbol, a
\* market order on an unlisted one.
CreatedTrades ==
    {NewTrade("AAPL", side, type, 1, p) :
        side \in {"buy", "sell"}, type \in {"market", "limit"}, p \in PriceLevels}
    \cup {NewTrade(UnlistedSymbol, "buy", "market", 1, Dollars(100))}

InitTrade ==
    /\ pos = NewPortfolio
    /\ lastFill = NoFill
    /\ nops = 0
    /\ InitLedger
    /\ InitDecision
    /\ InitEngineVars
    /\ InitStrategyVars

\* models.NewTrade(...).
CallNewTrade ==
    /\ trade = NoTrade
    /\ trade' \in CreatedTrades
    /\ UNCHANGED <<strategyVars, posVars, nops, user, dbUser, dbPortfolios, ret,
                   netFlow, decideVars, engineVars>>

\* trade.MarkFilled(fillPrice, commission).
CallMarkFilled ==
    /\ trade # NoTrade
    /\ nops < MaxCalls
    /\ \E fillPrice \in PriceLevels : trade' = MarkFilled(trade, fillPrice, 0)
    /\ nops' = nops + 1
    /\ UNCHANGED <<strategyVars, posVars, user, dbUser, dbPortfolios, ret, netFlow, decideVars,
                   engineVars>>

\* trade.Cancel().
CallCancel ==
    /\ trade # NoTrade
    /\ nops < MaxCalls
    /\ trade' = Cancel(trade)
    /\ nops' = nops + 1
    /\ UNCHANGED <<strategyVars, posVars, user, dbUser, dbPortfolios, ret, netFlow, decideVars,
                   engineVars>>

\* The prices GetCurrentPrice may return for the symbol of the trade.
Quotes(symbol) ==
    IF symbol \in Symbols THEN Fluctuations(mockPrices[symbol]) ELSE {0}

\* The mock prices after an order on the symbol was quoted currentPrice.
Requoted(symbol, currentPrice) ==
    IF symbol \in Symbols THEN [mockPrices EXCEPT ![symbol] = currentPrice]
    ELSE mockPrices

\* client.MockPlaceOrder(trade).
CallMockPlaceOrder ==
    /\ trade # NoTrade
    /\ nops < MaxCalls
    /\ \E currentPrice \in Quotes(trade.Symbol), slippage \in Slippages,
          fault \in {"none", "rejected", "unavailable"} :
          /\ (fault = "unavailable") <=> (trade.Symbol \notin Symbols)
          /\ LET placed == MockPlaceOrder(trade, currentPrice, slippage, fault)
             IN  /\ trade' = placed.trade
                 /\ orderErr' = placed.err
          /\ mockPrices' = Requoted(trade.Symbol, currentPrice)
    /\ nops' = nops + 1
    /\ UNCHANGED <<strategyVars, posVars, user, dbUser, dbPortfolios, ret, netFlow, decideVars,
                   cycles, dbTrade, running, cancelled, tally>>

\* engine.executeTrade(ctx, trade, user).
CallExecuteTrade ==
    /\ trade # NoTrade
    /\ nops < MaxCalls
    /\ \E outcome \in ExecOutcomes \cup {"priceUnavailable"},
          currentPrice \in Quotes(trade.Symbol), slippage \in Slippages :
          /\ trade.Symbol \notin Symbols => outcome \in {"CreateTrade", "priceUnavailable"}
          /\ trade.Symbol \in Symbols => outcome # "priceUnavailable"
          /\ outcome = "CreateTrade" =>
                currentPrice = CHOOSE q \in Quotes(trade.Symbol) : TRUE
          /\ LET r == executeTrade(trade, user, dbUser, dbPortfolios, outcome,
                                   currentPrice, slippage)
             IN  /\ trade' = r.trade
                 /\ ret' = r.ret
                 /\ user' = r.user
                 /\ dbUser' = r.dbUser
                 /\ dbPortfolios' = r.dbPortfolios
                 /\ dbTrade' = r.dbTrade
                 /\ orderErr' = r.orderErr
          /\ mockPrices' = IF outcome = "CreateTrade" THEN mockPrices
                           ELSE Requoted(trade.Symbol, currentPrice)
    /\ nops' = nops + 1
    /\ UNCHANGED <<strategyVars, posVars, netFlow, decideVars, cycles, running, cancelled,
                   tally>>

NextTrade ==
    \/ CallNewTrade
    \/ CallMarkFilled
    \/ CallCancel
    \/ CallMockPlaceOrder
    \/ CallExecuteTrade

SpecTrade == InitTrade /\ [][NextTrade]_vars

\* ------------------------------------------------------------------------
\* SpecStrategies: one call of a strategy's Analyze on a bar history, a
\* current price and parameters drawn from bounded sets.

\* Bound on the length of the bar history.
MaxBars == 5

BarCloses == {Dollars(8), Dollars(10), Dollars(12)}

RECURSIVE BarHistories(_)
\* The bar histories of length n.
BarHistories(n) ==
    IF n = 0 THEN {<<>>}
    ELSE {Append(h, [Close |-> c]) : h \in BarHistories(n - 1), c \in BarCloses}

CurrentPrices == {Dollars(6), Dollars(9), Dollars(10), Dollars(11), Dollars(14)}

\* Parameters with 0 < oversold < overbought < 100 and standardDeviations > 0.
StrategyParams ==
    {[EngineParams EXCEPT !.oversoldLevel = l[1], !.overboughtLevel = l[2],
                          !.standardDeviations = k] :
        l \in {<<30, 70>>, <<10, 15>>}, k \in {1, 2}}

InitStrategies ==
    /\ pos = NewPortfolio
    /\ lastFill = NoFill
    /\ nops = 0
    /\ InitLedger
    /\ InitDecision
    /\ InitEngineVars
    /\ bars \in UNION {BarHistories(n) : n \in 0..MaxBars}
    /\ quote \in CurrentPrices
    /\ params \in StrategyParams
    /\ emitted = NotCalled
    /\ computed = NotComputed

\* smaStrategy.Analyze(symbol, bars, currentPrice).
AnalyzeSMA ==
    /\ emitted = NotCalled
    /\ emitted' = [Strategy |-> "SMA Crossover",
                   Signal |-> SMAAnalyze(bars, quote, params.shortPeriod,
                                         params.longPeriod)]
    /\ UNCHANGED <<posVars, nops, ledgerVars, decideVars, engineVars, bars, quote, params,
                   computed>>

\* rsiStrategy.Analyze(symbol, bars, currentPrice).
AnalyzeRSI ==
    /\ emitted = NotCalled
    /\ emitted' = [Strategy |-> "RSI Strategy",
                   Signal |-> RSIAnalyze(bars, quote, params.rsiPeriod,
                                         params.oversoldLevel, params.overboughtLevel)]
    /\ UNCHANGED <<posVars, nops, ledgerVars, decideVars, engineVars, bars, quote, params,
                   computed>>

\* meanReversionStrategy.Analyze(symbol, bars, currentPrice).
AnalyzeMeanReversion ==
    /\ emitted = NotCalled
    /\ emitted' = [Strategy |-> "Mean Reversion",
                   Signal |-> MeanReversionAnalyze(bars, quote, params.period,
                                                   params.standardDeviations)]
    /\ UNCHANGED <<posVars, nops, ledgerVars, decideVars, engineVars, bars, quote, params,
                   computed>>

NextStrategies == AnalyzeSMA \/ AnalyzeRSI \/ AnalyzeMeanReversion

SpecStrategies == InitStrategies /\ [][NextStrategies]_vars

\* ------------------------------------------------------------------------
\* SpecIndicators: one call of an indicator function on a price series and
\* parameters drawn from bounded sets.

\* The closing prices of the series.
SeriesCloses == BarCloses \cup {Dollars(9)}

RECURSIVE SeriesOfLength(_)
SeriesOfLength(n) ==
    IF n = 0 THEN {<<>>}
    ELSE {Append(h, [Close |-> c]) : h \in SeriesOfLength(n - 1), c \in SeriesCloses}

\* The periods the indicators are called with (all >= 1).
IndicatorPeriods == 1..3

\* The number of standard deviations of the bands (>= 0).
BandDeviations == {0, 1, 2}

\* The exponential averages are followed on the series whose exact products
\* keep at most MaxFractionDigits fractional digits (each step of the
\* recurrence adds up to DivisionPrecision digits).
MaxFractionDigits == 8

WithinFraction(series) == Len(series) * DivisionPrecision <= MaxFractionDigits

InitIndicators ==
    /\ pos = NewPortfolio
    /\ lastFill = NoFill
    /\ nops = 0
    /\ InitLedger
    /\ InitDecision
    /\ InitEngineVars
    /\ bars \in UNION {SeriesOfLength(n) : n \in 0..MaxBars}
    /\ quote = Dollars(100)
    /\ params = EngineParams
    /\ emitted = NotCalled
    /\ computed = NotComputed

\* CalculateSMA(prices, period).
CallCalculateSMA ==
    /\ computed = NotComputed
    /\ \E period \in IndicatorPeriods :
          computed' = [Indicator |-> "SMA", period |-> period,
                       result |-> CalculateSMA(ExtractPrices(bars), period)]
    /\ UNCHANGED <<posVars, nops, ledgerVars, decideVars, engineVars, bars, quote, params,
                   emitted>>

\* CalculateEMA(prices, period).
CallCalculateEMA ==
    /\ computed = NotComputed
    /\ WithinFraction(bars)
    /\ \E period \in IndicatorPeriods :
          computed' = [Indicator |-> "EMA", period |-> period,
                       result |-> CalculateEMA(ExtractDecimals(bars), period)]
    /\ UNCHANGED <<posVars, nops, ledgerVars, decideVars, engineVars, bars, quote, params,
                   emitted>>

\* CalculateRSI(prices, period).
CallCalculateRSI ==
    /\ computed = NotComputed
    /\ \E period \in IndicatorPeriods :
          computed' = [Indicator |-> "RSI", period |-> period,
                       result |-> CalculateRSI(ExtractPrices(bars), period)]
    /\ UNCHANGED <<posVars, nops, ledgerVars, decideVars, engineVars, bars, quote, params,
                   emitted>>

\* CalculateBollingerBands(prices, period, stdDev).
CallCalculateBollingerBands ==
    /\ computed = NotComputed
    /\ \E period \in IndicatorPeriods, stdDev \in BandDeviations :
          computed' = [Indicator |-> "BollingerBands", period |-> period,
                       stdDev |-> stdDev,
                       result |-> CalculateBollingerBands(ExtractPrices(bars), period,
                                                          stdDev)]
    /\ UNCHANGED <<posVars, nops, ledgerVars, decideVars, engineVars, bars, quote, params,
                   emitted>>

\* CalculateMACD(prices, fastPeriod, slowPeriod, signalPeriod).
CallCalculateMACD ==
    /\ computed = NotComputed
    /\ WithinFraction(bars)
    /\ \E fastPeriod \in IndicatorPeriods, slowPeriod \in IndicatorPeriods,
          signalPeriod \in IndicatorPeriods :
          computed' = [Indicator |-> "MACD", fastPeriod |-> fastPeriod,
                       slowPeriod |-> slowPeriod, signalPeriod |-> signalPeriod,
                       result |-> CalculateMACD(ExtractDecimals(bars), fastPeriod,
                                                slowPeriod, signalPeriod)]
    /\ UNCHANGED <<posVars, nops, ledgerVars, decideVars, engineVars, bars, quote, params,
                   emitted>>

NextIndicators ==
    \/ CallCalculateSMA
    \/ CallCalculateEMA
    \/ CallCalculateRSI
    \/ CallCalculateBollingerBands
    \/ CallCalculateMACD

SpecIndicators == InitIndicators /\ [][NextIndicators]_vars

\* ------------------------------------------------------------------------
\* Spec: the trading engine (main.go): run, processTradingCycle, processSymbol
\* and the shutdown goroutine of main.

NoUser == [absent |-> TRUE]

NoSnapshot == [s \in Symbols |-> NoRow]

\* The signals the strategies return to the engine's processSymbol.
EngineSignalInputs ==
    {Collect(o) : o \in [1..Len(Strategies) ->
        {[Signal |-> "none", Strength |-> 0], [Signal |-> "BUY", Strength |-> 9],
         [Signal |-> "SELL", Strength |-> 9]}]}

\* The ledger after an earlier run bought 2 shares of a symbol at 100.2.
BoughtEarlier(l, symbol) ==
    applyFilledTrade(MarkFilled(NewTrade(symbol, "buy", "market", 2, Dollars(100)),
                                Dollars(100) + Scale \div 5, 0),
                     l.user, l.dbUser, l.dbPortfolios, "none")

\* The database main opens: a fresh one, in which getOrCreateDemoUser creates
\* the user, or the one an earlier run left after buying 2 AAPL, or 2 AAPL
\* and 2 GOOGL.
InitialLedgers ==
    LET fresh == LedgerResult(FALSE, [Balance |-> InitialBalance], InitialBalance,
                              [s \in Symbols |-> NoRow])
    IN  {fresh, BoughtEarlier(fresh, "AAPL"),
         BoughtEarlier(BoughtEarlier(fresh, "AAPL"), "GOOGL")}

Init ==
    /\ pos = NewPortfolio
    /\ lastFill = NoFill
    /\ nops = 0
    /\ user = NoUser
    /\ \E l \in InitialLedgers :
          /\ dbUser = l.dbUser
          /\ dbPortfolios = l.dbPortfolios
    /\ trade = NoTrade
    /\ ret = "none"
    /\ netFlow = 0
    /\ config \in EngineConfigs
    /\ portfolio = NoSnapshot
    /\ prices = [s \in Symbols |-> Dollars(100)]
    /\ signals = <<>>
    /\ decision = NoTrade
    /\ idx = 1
    /\ pc = "idle"
    /\ InitEngineVars
    /\ InitStrategyVars

\* The ticker fires in run (main.go 152-160) and processTradingCycle runs up
\* to its loop over the symbols (main.go 165-199).  run reads e.running
\* without synchronising with the goroutine that clears it, so after the
\* write it may still see true (seen) unless it has observed ctx.Done.  how is what the
\* collaborators answer: the market is closed, GetUser or GetPortfolioByUser
\* fails, or the cycle goes on; failing is the position whose UpsertPortfolio
\* fails in updatePortfolioValues (or "none") and before the positions
\* revalued and saved before it.
StartCycle ==
    /\ pc = "idle"
    /\ \E seen \in {TRUE, running} : seen
    /\ cycles < MaxCycles
    /\ cycles' = cycles + 1
    /\ \E how \in {"closed", "GetUser", "GetPortfolioByUser", "open"},
          quotes \in [Symbols -> PriceLevels] :
          /\ \A s \in Symbols : quotes[s] \in Fluctuations(mockPrices[s])
          /\ IF how = "closed"
             THEN UNCHANGED <<mockPrices, prices, user, portfolio, dbPortfolios, idx, pc,
                              tally>>
             ELSE /\ mockPrices' = quotes
                  /\ IF how # "open"
                     THEN UNCHANGED <<prices, user, portfolio, dbPortfolios, idx, pc, tally>>
                     ELSE LET loaded == GetPortfolioByUser(dbPortfolios)
                              held == {s \in Symbols : loaded[s] # NoRow}
                          IN  \E failing \in held \cup {"none"},
                                 before \in SUBSET held :
                                 /\ failing = "none" => before = held
                                 /\ failing # "none" => failing \notin before
                                 /\ LET valued == updatePortfolioValues(loaded, quotes,
                                                      before \cup {failing})
                                    IN  /\ portfolio' = valued
                                        /\ dbPortfolios' =
                                             [s \in Symbols |->
                                                IF s \in before THEN valued[s]
                                                ELSE dbPortfolios[s]]
                                 /\ prices' = quotes
                                 /\ user' = [Balance |-> dbUser]
                                 /\ tally' = [NoTally EXCEPT !.cash = dbUser]
                                 /\ idx' = 1
                                 /\ pc' = "symbols"
    /\ UNCHANGED <<strategyVars, posVars, nops, dbUser, trade, ret, netFlow, config, signals,
                   decision, dbTrade, running, cancelled, orderErr>>

\* An iteration of the loop of processTradingCycle (main.go 202-212) enters
\* processSymbol for the next symbol of the watchlist: GetBars, the signals
\* the strategies return and makeTradeDecision (main.go 220-246).  Without a
\* decision the iteration is over.
ProcessSymbol ==
    /\ pc = "symbols"
    /\ idx <= Len(Watchlist)
    /\ \E sigs \in EngineSignalInputs :
          LET symbol == Watchlist[idx]
              r == callMakeTradeDecision(sigs, symbol, prices[symbol], user,
                                         portfolio, config)
          IN  /\ decision' = r.decision
              /\ user' = r.user
              /\ portfolio' = r.portfolio
              /\ IF r.decision = NoTrade
                 THEN idx' = idx + 1 /\ pc' = "symbols"
                 ELSE idx' = idx /\ pc' = "execute"
              /\ tally' = IF r.decision # NoTrade /\ r.decision.Side = "buy"
                          THEN [tally EXCEPT !.intents =
                                   @ + r.decision.Quantity * r.decision.Price]
                          ELSE tally
    /\ trade' = NoTrade
    /\ ret' = "none"
    /\ dbTrade' = NoRecord
    /\ orderErr' = FALSE
    /\ UNCHANGED <<strategyVars, posVars, nops, dbUser, dbPortfolios, netFlow, config, prices,
                   signals, cycles, mockPrices, running, cancelled>>

\* The tally after executeTrade returned r for the intent: a fill that the
\* ledger update applied to the cash adds its reference-price notional and
\* its cost overrun (BUY) or its proceeds (SELL).
Tallied(t, intent, r) ==
    IF r.ret = "none" \/ r.trade.Status # "filled" THEN t
    ELSE IF intent.Side = "buy"
    THEN [t EXCEPT !.filled = @ + intent.Quantity * intent.Price,
                   !.overruns = @ + GetTotalCost(r.trade)
                                  - intent.Quantity * intent.Price]
    ELSE [t EXCEPT !.proceeds = @ + GetTotalCost(r.trade)]

\* processSymbol executes its decision (main.go 247-251): executeTrade with
\* the outcome of the order and of the database calls, the ledger update
\* included (main.go 312-340); the iteration is over.
ExecuteDecision ==
    /\ pc = "execute"
    /\ \E outcome \in ExecOutcomes,
          currentPrice \in Fluctuations(mockPrices[decision.Symbol]),
          slippage \in Slippages :
          LET r == executeTrade(decision, user, dbUser, dbPortfolios, outcome,
                                currentPrice, slippage)
          IN  /\ trade' = r.trade
              /\ ret' = r.ret
              /\ user' = r.user
              /\ dbUser' = r.dbUser
              /\ dbPortfolios' = r.dbPortfolios
              /\ dbTrade' = r.dbTrade
              /\ orderErr' = r.orderErr
              /\ tally' = Tallied(tally, decision, r)
              /\ IF outcome = "CreateTrade"
                 THEN /\ currentPrice = mockPrices[decision.Symbol]
                      /\ UNCHANGED mockPrices
                 ELSE mockPrices' = [mockPrices EXCEPT ![decision.Symbol] = currentPrice]
    /\ decision' = NoTrade
    /\ idx' = idx + 1
    /\ pc' = "symbols"
    /\ UNCHANGED <<strategyVars, posVars, nops, netFlow, config, portfolio, prices, signals,
                   cycles, running, cancelled>>

\* The loop is over: printPortfolioSummary, and run waits for the next tick
\* (main.go 214-217).
FinishCycle ==
    /\ pc = "symbols"
    /\ idx > Len(Watchlist)
    /\ pc' = "idle"
    /\ user' = NoUser
    /\ portfolio' = NoSnapshot
    /\ trade' = NoTrade
    /\ ret' = "none"
    /\ dbTrade' = NoRecord
    /\ orderErr' = FALSE
    /\ tally' = NoTally
    /\ idx' = 1
    /\ UNCHANGED <<strategyVars, posVars, nops, dbUser, dbPortfolios, netFlow, config,
                   prices, signals, decision, cycles, mockPrices, running, cancelled>>

\* The shutdown goroutine of main receives a signal: engine.running = false
\* (main.go 85-87).
SignalReceived ==
    /\ running
    /\ running' = FALSE
    /\ UNCHANGED <<strategyVars, posVars, nops, ledgerVars, decideVars, cycles, mockPrices,
                   dbTrade, cancelled, orderErr, tally>>

\* The shutdown goroutine cancels the context (main.go 88).
CancelContext ==
    /\ ~running
    /\ ~cancelled
    /\ cancelled' = TRUE
    /\ UNCHANGED <<strategyVars, posVars, nops, ledgerVars, decideVars, cycles, mockPrices,
                   dbTrade, running, orderErr, tally>>

\* run returns: the context is done (main.go 150-151), or a tick finds the
\* engine no longer running (main.go 153-155).
RunReturns_abortsSymbol ==
    /\ pc \in {"idle", "execute"}
    /\ cancelled \/ ~running
    /\ pc' = "stopped"
    /\ UNCHANGED <<strategyVars, posVars, nops, ledgerVars, config, portfolio, prices, signals,
                   decision, idx, engineVars>>

RunReturns ==
    /\ pc = "idle"
    /\ cancelled \/ ~running
    /\ pc' = "stopped"
    /\ UNCHANGED <<strategyVars, posVars, nops, ledgerVars, config, portfolio, prices, signals,
                   decision, idx, engineVars>>

Next ==
    \/ StartCycle
    \/ ProcessSymbol
    \/ ExecuteDecision
    \/ FinishCycle
    \/ SignalReceived
    \/ CancelContext
    \/ RunReturns

Spec == Init /\ [][Next]_vars

\* The engine under fair scheduling: the goroutine of run goes on with a
\* cycle it has started, the shutdown goroutine goes on to cancel after it
\* has cleared the flag, and the select of run (main.go 149-151), which
\* chooses at random among its ready cases, does not avoid ctx.Done for ever.
FairSpec ==
    /\ Init
    /\ [][Next]_vars
    /\ WF_vars(ProcessSymbol)
    /\ WF_vars(ExecuteDecision)
    /\ WF_vars(FinishCycle)
    /\ WF_vars(CancelContext)
    /\ SF_vars(RunReturns)

\* ------------------------------------------------------------------------
\* Properties of the trading engine (Spec)

\* Quantity and average price of a position; no row counts as an empty one.
Holding(row) ==
    IF row = NoRow THEN <<0, 0>> ELSE <<row.Quantity, row.AveragePrice>>

\* In this step the cash or a position changes: the persisted balance, the
\* balance of the user object of the running cycle, a persisted position or
\* a position of the portfolio loaded for the running cycle.
LedgerMutated ==
    \/ dbUser' # dbUser
    \/ user # NoUser /\ user' # NoUser /\ user'.Balance # user.Balance
    \/ \E s \in Symbols : Holding(dbPortfolios'[s]) # Holding(dbPortfolios[s])
    \/ pc \in {"symbols", "execute"} /\ pc' \in {"symbols", "execute"}
          /\ \E s \in Symbols : Holding(portfolio'[s]) # Holding(portfolio[s])

\* C2: the cash balance and every position (quantity, average price), in
\* memory and persisted, change only in a step that executes a trade whose
\* status is FILLED, and then only the position of that trade's symbol.
C2_OnlyFilledTradesMutate ==
    [][LedgerMutated =>
        /\ trade' # NoTrade
        /\ trade'.Status = "filled"
        /\ \A s \in Symbols \ {trade'.Symbol} :
              Holding(dbPortfolios'[s]) = Holding(dbPortfolios[s])
    ]_vars

\* A trade was executed and rejected; cash and positions are as before it.
C2_Witness ==
    /\ trade # NoTrade
    /\ trade.Status = "rejected"
    /\ dbTrade = "rejected"
    /\ user # NoUser
    /\ user.Balance = InitialBalance
    /\ dbUser = InitialBalance
    /\ \A s \in Symbols : dbPortfolios[s] = NoRow

\* The step enters the loop of a trading cycle: prices, user and positions
\* are loaded and updatePortfolioValues has run.
CycleLoaded == pc = "idle" /\ pc' = "symbols"

\* C11: in every trading cycle the market value and the unrealized
\* profit/loss of each held position are recomputed from the cycle's price of
\* its symbol: afterwards marketValue = quantity*currentPrice and
\* unrealizedPL = marketValue - quantity*avgPrice.
C11_EveryCycleRevaluesHeldPositions ==
    [][CycleLoaded =>
        \A s \in Symbols :
           portfolio'[s] # NoRow =>
             /\ portfolio'[s].CurrentValue = portfolio'[s].Quantity * prices'[s]
             /\ portfolio'[s].UnrealizedPL =
                   portfolio'[s].CurrentValue
                     - portfolio'[s].Quantity * portfolio'[s].AveragePrice
    ]_vars

\* The step is an execution whose order failed: MockPlaceOrder returned an
\* error.
OrderFailed == pc = "execute" /\ pc' # pc /\ orderErr'

\* After a failed order the cash and the positions are as before, the trade
\* is REJECTED and the loop is at the next symbol with nothing to execute.
FailedOrderLeavesLedger ==
    /\ user' = user
    /\ dbUser' = dbUser
    /\ dbPortfolios' = dbPortfolios
    /\ portfolio' = portfolio
    /\ trade'.Status = "rejected"
    /\ decision' = NoTrade
    /\ idx' = idx + 1
    /\ pc' = "symbols"

\* C12, as stated: when the execution attempt fails, cash and positions are
\* unchanged, the trade ends REJECTED, that status is persisted, and there is
\* no further execution attempt for the trade in the cycle.
C12_FailedOrderPersistedRejected ==
    [][OrderFailed => (FailedOrderLeavesLedger /\ dbTrade' = "rejected")]_vars

\* C12, amended: when the execution attempt fails, cash and positions are
\* unchanged, the trade ends REJECTED and there is no further execution
\* attempt for it in the cycle; the status is written with an UpdateTrade
\* whose error is ignored, so the row of the trade holds REJECTED when that
\* write succeeds and still PENDING when it fails.
C12_FailedOrderLeavesLedgerUntouched ==
    [][OrderFailed =>
        (FailedOrderLeavesLedger /\ dbTrade' \in {"rejected", "pending"})]_vars

\* The SELL of a held position was rejected and the rejection could not be
\* saved: the position is still held and the row of the trade says PENDING.
C12_Witness ==
    /\ orderErr
    /\ trade # NoTrade
    /\ trade.Side = "sell"
    /\ trade.Status = "rejected"
    /\ dbTrade = "pending"
    /\ dbPortfolios[trade.Symbol] # NoRow
    /\ dbPortfolios[trade.Symbol].Quantity = trade.Quantity

\* C14: in every state the engine reaches, every position's quantity is >= 0,
\* in the portfolios table and among the positions loaded for the cycle.
C14_NoShortPosition ==
    \A s \in Symbols :
       /\ dbPortfolios[s] # NoRow => dbPortfolios[s].Quantity >= 0
       /\ portfolio[s] # NoRow => portfolio[s].Quantity >= 0

\* A held position was sold: the fill of the whole holding left quantity 0.
C14_Witness ==
    /\ trade # NoTrade
    /\ trade.Side = "sell"
    /\ trade.Status = "filled"
    /\ ret = "nil"
    /\ trade.Quantity = 2
    /\ dbPortfolios[trade.Symbol] # NoRow
    /\ dbPortfolios[trade.Symbol].Quantity = 0

\* C16: a shutdown arriving during a trading cycle never interrupts a symbol
\* part-way.  Whatever running and the context say, a symbol whose decision
\* is taken can be executed and the next step of the engine executes that
\* decision, ledger update included; no step of a cycle changes the position
\* of a symbol processed earlier in it, and the shutdown steps change neither
\* cash nor positions.
C16_ShutdownNeverInterruptsSymbol ==
    /\ [](pc = "execute" => ENABLED ExecuteDecision)
    /\ [][/\ (pc = "execute" /\ pc' # pc) =>
                /\ pc' = "symbols"
                /\ idx' = idx + 1
                /\ trade' # NoTrade
                /\ trade'.Symbol = Watchlist[idx]
                /\ trade'.Side = decision.Side
                /\ trade'.Quantity = decision.Quantity
                /\ (trade'.Status = "filled" /\ dbTrade' = "filled") => ret' # "none"
          /\ (pc \in {"symbols", "execute"}) =>
                \A i \in 1..(idx - 1) :
                   dbPortfolios'[Watchlist[i]] = dbPortfolios[Watchlist[i]]
          /\ (running' # running \/ cancelled' # cancelled) =>
                (dbUser' = dbUser /\ dbPortfolios' = dbPortfolios /\ user' = user
                   /\ pc' = pc)
       ]_vars

\* The shutdown has arrived (running cleared, context cancelled) between the
\* decision for the second symbol and its execution, after the first symbol
\* of the cycle was bought.
C16_Witness ==
    /\ pc = "execute"
    /\ ~running
    /\ cancelled
    /\ idx = 2
    /\ dbPortfolios[Watchlist[1]] # NoRow
    /\ dbPortfolios[Watchlist[2]] = NoRow
    /\ dbUser < InitialBalance

\* C27: at every observable state of the engine the cash balance of the user,
\* in memory and in the users table, is at least zero.  The affordability
\* check of makeTradeDecision prices the order at the reference price of the
\* cycle, the fill is at the re-quoted price plus slippage, and UpdateBalance
\* subtracts its cost unchecked: the statement is violated.
C27_CashNeverNegative ==
    /\ user # NoUser => user.Balance >= 0
    /\ dbUser >= 0


\* C28: when the loop over the symbols of a trading cycle is over, every row of
\* the portfolios table satisfies currentValue - unrealizedPL =
\* quantity * averagePrice.  updateUserBalanceAndPortfolio saves the position
\* after UpdatePosition without revaluing it, so the row of a position opened
\* in the cycle carries the value 0 and the row of a closed position keeps
\* the value and the P/L of its last revaluation: the statement is violated.
C28_PersistedPositionsConsistent ==
    (pc = "symbols" /\ idx > Len(Watchlist)) =>
        \A s \in Symbols :
            dbPortfolios[s] # NoRow =>
                dbPortfolios[s].CurrentValue - dbPortfolios[s].UnrealizedPL
                    = dbPortfolios[s].Quantity * dbPortfolios[s].AveragePrice

\* The shutdown goroutine has handled the signal: it has cleared e.running
\* and cancelled the context.
ShutdownHandled == ~running /\ cancelled

\* C29: once the shutdown goroutine has handled the signal, the run loop
\* starts no new trading cycle and, under fair scheduling, eventually
\* returns.  run reads e.running without synchronising with the goroutine
\* that cleared it, and its select may take a pending tick although the
\* context is done, so a cycle can still start: the statement is violated.
C29_ShutdownStartsNoCycle ==
    /\ [][ShutdownHandled => cycles' = cycles]_vars
    /\ (ShutdownHandled ~> pc = "stopped")

\* The cash of the running cycle after the fills applied so far: the cash at
\* its start, plus the proceeds of its SELL fills, minus the reference-price
\* notionals and the cost overruns of its BUY fills.
CashAfterFills == tally.cash + tally.proceeds - tally.filled - tally.overruns

\* A BUY intent has been decided and is about to be executed.
BuyDecided == pc = "execute" /\ decision.Side = "buy"

\* The loop of a cycle takes the symbols of the watchlist in order, one
\* iteration each, and goes on to the next symbol whatever executeTrade
\* returned; the intent of an iteration is for its symbol.  A step that
\* changes running or cancelled is a step of the shutdown goroutine.
SequentialStep ==
    IF running' # running \/ cancelled' # cancelled
    THEN pc' = pc /\ idx' = idx
    ELSE /\ pc = "symbols" /\ pc' = "execute" =>
                idx' = idx /\ decision'.Symbol = Watchlist[idx]
         /\ pc = "symbols" /\ pc' = "symbols" => idx' = idx + 1
         /\ pc = "symbols" /\ pc' = "idle" => idx > Len(Watchlist)
         /\ pc = "execute" => pc' = "symbols" /\ idx' = idx + 1

\* In a running cycle the in-memory cash is the cash after the fills applied
\* so far, and the next symbol of the watchlist, if any, can be processed.
CycleInvariant ==
    pc \in {"symbols", "execute"} =>
        /\ idx \in 1..(Len(Watchlist) + 1)
        /\ user.Balance = CashAfterFills
        /\ pc = "symbols" /\ idx <= Len(Watchlist) => ENABLED ProcessSymbol

\* C30 as stated: sequential processing, each symbol at most once, a BUY sized
\* on the cash after the earlier fills, an error does not stop the loop, and
\* the reference-price notionals of all the BUY intents decided in the cycle
\* sum to at most the cash at its start plus the proceeds of the earlier SELL
\* fills minus the cost overruns of the earlier BUY fills.  Violated: an
\* intent whose order was rejected or not recorded consumes no cash.
C30_AllBuyIntentsWithinCash ==
    /\ [](CycleInvariant /\
          (BuyDecided =>
              tally.intents <= tally.cash + tally.proceeds - tally.overruns))
    /\ [][SequentialStep]_vars

\* C30 (amended): the same, the sum being over the BUY intents whose fills
\* were applied to the cash and the intent being decided.
C30_FilledBuyIntentsWithinCash ==
    /\ [](CycleInvariant /\
          (BuyDecided =>
              tally.filled + decision.Quantity * decision.Price
                  <= tally.cash + tally.proceeds - tally.overruns))
    /\ [][SequentialStep]_vars

\* A BUY is decided for the second symbol after a BUY fill for the first one
\* was applied to the cash.
C30_Witness ==
    /\ BuyDecided
    /\ idx = 2
    /\ tally.filled > 0
    /\ user.Balance < tally.cash
    /\ tally.intents = tally.filled + decision.Quantity * decision.Price

\* ------------------------------------------------------------------------
\* Properties of the strategies (SpecStrategies)

\* C18: every signal a strategy emits has direction BUY or SELL and a
\* strength in [0.0, 1.0].
C18_SignalWellFormed ==
    emitted.Signal # NoSignal =>
      /\ emitted.Signal.Signal \in {"BUY", "SELL"}
      /\ emitted.Signal.Strength.den > 0
      /\ emitted.Signal.Strength.num >= 0
      /\ emitted.Signal.Strength.num <= emitted.Signal.Strength.den

\* The mean reversion strategy emitted a BUY for a price so far below the
\* lower band that the strength was capped at 1.0.
C18_Witness ==
    /\ emitted.Strategy = "Mean Reversion"
    /\ emitted.Signal.Signal = "BUY"
    /\ emitted.Signal.Strength = Rat(1, 1)
    /\ quote = Dollars(6)

\* The RSI series of the bar history in the state.
StateRSI == CalculateRSI(ExtractPrices(bars), params.rsiPeriod)

\* C19: whenever the current RSI is below 20 the RSI strategy emits BUY with
\* strength 0.9 and whenever it is above 80 it emits SELL with strength 0.9,
\* whether or not the RSI crossed a level since the previous bar.
C19_ExtremesOverrideCrossing ==
    (emitted.Strategy = "RSI Strategy" /\ Len(StateRSI) >= 2) =>
      /\ StateRSI[Len(StateRSI)] < 20 * Scale =>
            emitted.Signal = TradingSignal("BUY", Rat(9, 10), quote)
      /\ StateRSI[Len(StateRSI)] > 80 * Scale =>
            emitted.Signal = TradingSignal("SELL", Rat(9, 10), quote)

\* The latest Bollinger bands of the bar history in the state.
StateBands ==
    LET b == CalculateBollingerBands(ExtractPrices(bars), params.period,
                                     params.standardDeviations)
    IN  b[Len(b)]

StateMeanReversion(price) ==
    MeanReversionAnalyze(bars, price, params.period, params.standardDeviations)

\* C20: the mean reversion strategy is a four-zone ladder in which every zone
\* is reachable: for bands of positive width a price below the lower band
\* gives BUY, a price above the upper band gives SELL, some price inside the
\* bands gives a (weak) BUY and some price inside the bands a (weak) SELL.
C20_EveryZoneReachable ==
    (emitted.Strategy = "Mean Reversion" /\ Len(bars) >= params.period
        /\ StateBands.upper > StateBands.lower) =>
      /\ quote < StateBands.lower => emitted.Signal.Signal = "BUY"
      /\ quote > StateBands.upper => emitted.Signal.Signal = "SELL"
      /\ \E price \in StateBands.lower..StateBands.upper :
            StateMeanReversion(price).Signal = "BUY"
      /\ \E price \in StateBands.lower..StateBands.upper :
            StateMeanReversion(price).Signal = "SELL"

\* The short and the long SMA series of the bar history in the state.
StateShortSMA == CalculateSMA(ExtractPrices(bars), params.shortPeriod)

StateLongSMA == CalculateSMA(ExtractPrices(bars), params.longPeriod)

\* The direction the crossover rule gives for the bar history in the state:
\* BUY when the short SMA was <= the long SMA at the previous bar and is >
\* at the current bar, SELL when it was >= and is <, nothing otherwise and
\* nothing with fewer than longPeriod + 1 bars.
CrossoverDirection ==
    LET s == StateShortSMA
        l == StateLongSMA
    IN  IF Len(bars) < params.longPeriod + 1 THEN "none"
        ELSE IF s[Len(s) - 1] <= l[Len(l) - 1] /\ s[Len(s)] > l[Len(l)] THEN "BUY"
        ELSE IF s[Len(s) - 1] >= l[Len(l) - 1] /\ s[Len(s)] < l[Len(l)] THEN "SELL"
        ELSE "none"

\* |shortSMA - longSMA| at the current bar.
CrossoverGap == Abs(StateShortSMA[Len(StateShortSMA)] - StateLongSMA[Len(StateLongSMA)])

RatEqual(a, b) == a.num * b.den = b.num * a.den

Series == ExtractPrices(bars)

\* C22: CalculateSMA returns an empty result when the series is shorter than
\* the period and otherwise len(series) - period + 1 values, the i-th the
\* mean of series[i .. i+period-1] (as a decimal quotient: nearest at the last
\* kept digit); EMA, RSI, Bollinger Bands and MACD return empty results, and
\* do not fail, on a series shorter than their minimum length (the period;
\* period + 1 for RSI; either EMA period for MACD).
C22_InsufficientDataGivesEmpty ==
    /\ computed.Indicator = "SMA" =>
          IF Len(Series) < computed.period THEN computed.result = <<>>
          ELSE /\ Len(computed.result) = Len(Series) - computed.period + 1
               /\ \A i \in 1..Len(computed.result) :
                     2 * Abs(computed.result[i] * computed.period
                               - SumRange(Series, i, i + computed.period - 1))
                       <= computed.period
    /\ (computed.Indicator = "EMA" /\ Len(Series) < computed.period) =>
          computed.result = <<>>
    /\ (computed.Indicator = "RSI" /\ Len(Series) < computed.period + 1) =>
          computed.result = <<>>
    /\ (computed.Indicator = "BollingerBands" /\ Len(Series) < computed.period) =>
          computed.result = <<>>
    /\ (computed.Indicator = "MACD"
          /\ Len(Series) < Max(computed.fastPeriod, computed.slowPeriod)) =>
          computed.result = MACDResult(<<>>, <<>>, <<>>)

\* The SMA of period 3 of a series of 5 prices whose windows have different
\* means.
C22_Witness ==
    /\ computed.Indicator = "SMA"
    /\ computed.period = 3
    /\ Len(Series) = 5
    /\ Len(computed.result) = 3
    /\ computed.result[1] < computed.result[2]
    /\ computed.result[2] > computed.result[3]

\* Every price of the series of the state is c.
ConstantSeries(c) == \A i \in 1..Len(Series) : Series[i] = c

C24_RSIBounded ==
    computed.Indicator = "RSI" =>
      /\ \A i \in 1..Len(computed.result) :
            computed.result[i] >= 0 /\ computed.result[i] <= 100 * Scale
      /\ (\A j \in 1..(Len(Series) - 1) : Series[j + 1] >= Series[j]) =>
            \A i \in 1..Len(computed.result) : computed.result[i] = 100 * Scale
      /\ (\A j \in 1..(Len(Series) - 1) : Series[j + 1] < Series[j]) =>
            \A i \in 1..Len(computed.result) : computed.result[i] = 0

\* The RSI of period 2 of a strictly decreasing series of 4 prices: two
\* values, the second from the smoothed averages, both 0.
C24_Witness ==
    /\ computed.Indicator = "RSI"
    /\ computed.period = 2
    /\ Len(Series) = 4
    /\ \A j \in 1..3 : Series[j + 1] < Series[j]
    /\ computed.result = <<0, 0>>

\* C25: the three outputs of CalculateBollingerBands have the length of
\* SMA(series, period), the middle band is that SMA, and at every index
\* lower <= middle <= upper with upper - middle = middle - lower = k*stddev,
\* stddev being the square root (cut at the last kept digit) of the mean
\* (a decimal quotient) of the squared differences to the window's mean.
C25_BandsSymmetric ==
    computed.Indicator = "BollingerBands" =>
      LET sma == CalculateSMA(Series, computed.period)
      IN  /\ Len(computed.result) = Len(sma)
          /\ \A i \in 1..Len(computed.result) :
                LET band == computed.result[i]
                    halfWidth == band.upper - band.middle
                    sum == SumSquares(Series, sma[i], i, i + computed.period - 1)
                IN  /\ band.middle = sma[i]
                    /\ band.lower <= band.middle
                    /\ band.middle <= band.upper
                    /\ band.middle - band.lower = halfWidth
                    /\ band.upper - band.lower = 2 * halfWidth
                    /\ computed.stdDev = 0 => halfWidth = 0
                    /\ computed.stdDev > 0 =>
                          /\ halfWidth % computed.stdDev = 0
                          /\ LET stddev == halfWidth \div computed.stdDev
                                 below == sum \div (computed.period * Scale)
                             IN  \E variance \in {below, below + 1} :
                                    /\ 2 * Abs(variance * computed.period * Scale - sum)
                                          <= computed.period * Scale
                                    /\ stddev * stddev <= variance * Scale
                                    /\ variance * Scale < (stddev + 1) * (stddev + 1)

\* Bands of 2 standard deviations around a window whose prices differ.
C25_Witness ==
    /\ computed.Indicator = "BollingerBands"
    /\ computed.stdDev = 2
    /\ computed.period = 3
    /\ Len(computed.result) >= 2
    /\ computed.result[1].upper > computed.result[1].middle
    /\ computed.result[1].upper - computed.result[1].lower >= Dollars(2)

\* C26: for every series and all positive periods CalculateMACD returns,
\* without failing, three sequences of equal length, index-aligned on their
\* last element, with histogram[i] = macd[i] - signal[i], the macd line
\* being EMA(fast) - EMA(slow) with the leading elements of the longer EMA
\* output trimmed; the result is empty when the series is too short.
C26_MACDAlignedNeverFails ==
    computed.Indicator = "MACD" =>
      LET r == computed.result
          fastEMA == CalculateEMA(ExtractDecimals(bars), computed.fastPeriod)
          slowEMA == CalculateEMA(ExtractDecimals(bars), computed.slowPeriod)
      IN  /\ ~r.panicked
          /\ Len(r.macd) = Len(r.signal)
          /\ Len(r.histogram) = Len(r.signal)
          /\ \A i \in 1..Len(r.histogram) :
                r.histogram[i] = DecimalSub(r.macd[i], r.signal[i])
          /\ \A k \in 0..(Len(r.macd) - 1) :
                r.macd[Len(r.macd) - k] =
                   DecimalSub(fastEMA[Len(fastEMA) - k], slowEMA[Len(slowEMA) - k])
          /\ Len(Series) < Max(computed.fastPeriod, computed.slowPeriod)
                              + computed.signalPeriod - 1 =>
                r.macd = <<>> /\ r.signal = <<>> /\ r.histogram = <<>>

\* ------------------------------------------------------------------------
\* Properties of the trade operations (SpecTrade)

\* C13: every trade is created PENDING and its status only moves from PENDING
\* to FILLED, CANCELLED or REJECTED: none of MarkFilled, Cancel,
\* MockPlaceOrder and executeTrade moves a FILLED, CANCELLED or REJECTED trade
\* to a different status.
C13_TradeLifecycle ==
    [][/\ (trade = NoTrade /\ trade' # NoTrade) => trade'.Status = "pending"
       /\ (trade # NoTrade /\ trade' # NoTrade /\ trade'.Status # trade.Status) =>
             /\ trade.Status = "pending"
             /\ trade'.Status \in {"filled", "cancelled", "rejected"}
    ]_vars

\* ------------------------------------------------------------------------
\* Properties of the ledger update (SpecLedger)

\* The ledger update of this step was handed a trade.
LedgerStep == nops' = nops + 1 /\ trade' # NoTrade

LedgerUnchanged == user' = user /\ dbUser' = dbUser /\ dbPortfolios' = dbPortfolios

\* C1, as stated: applying a trade whose status is not FILLED reports an
\* error to the caller.
C1_NonFilledReportsError ==
    (trade # NoTrade /\ trade.Status # "filled") => ret = "error"

\* C1, amended: applying a trade whose status is not FILLED returns nil (no
\* error) and changes neither the account cash, in memory or persisted, nor
\* any position.
C1_NonFilledReturnsNilUnchanged ==
    [][(LedgerStep /\ trade'.Status # "filled") => (ret' = "nil" /\ LedgerUnchanged)]_vars

\* A PENDING trade was applied to a ledger that holds a position.
C1_Witness ==
    /\ trade # NoTrade
    /\ trade.Status = "pending"
    /\ ret = "nil"
    /\ dbPortfolios[trade.Symbol] # NoRow
    /\ dbPortfolios[trade.Symbol].Quantity # 0

\* C3: whenever the ledger update returns an error, it has changed neither
\* the account cash (in memory or persisted) nor any position.
C3_ErrorLeavesLedgerUnchanged ==
    [][(LedgerStep /\ ret' = "error") => LedgerUnchanged]_vars

\* C6: after any sequence of applied fills the cash is the initial cash minus
\* the sum of quantity*fillPrice + commission over the BUY fills plus the sum
\* of quantity*fillPrice - commission over the SELL fills (netFlow adds up
\* exactly these terms); the same amount is persisted when the update
\* returned nil.
C6_CashIsInitialMinusBuysPlusSells ==
    /\ user.Balance = InitialBalance + netFlow
    /\ (trade # NoTrade /\ trade.Status = "filled" /\ ret = "nil")
          => dbUser = user.Balance

\* A SELL fill with a commission was applied after earlier fills.
C6_Witness ==
    /\ trade # NoTrade
    /\ trade.Status = "filled"
    /\ trade.Side = "sell"
    /\ trade.Commission > 0
    /\ ret = "nil"
    /\ nops = MaxFills
    /\ netFlow # trade.Quantity * trade.FillPrice - trade.Commission

\* C7: ledger round trip.  A first fill sets quantity and average price to the
\* fill's; a same-direction fill adds the quantity and sets the average price
\* to (oldQty*oldAvg + newQty*fillPrice)/(oldQty+newQty), as a decimal
\* quotient (nearest at the last kept digit); an opposite fill of the whole
\* held quantity yields 0 @ 0; a smaller opposite fill keeps the average
\* price; buying 1 @ 100 then 1 @ 110 gives 2 @ 105.
C7_LedgerRoundTrip ==
    [][(LedgerStep /\ trade'.Status = "filled" /\ ret' = "nil") =>
        LET t == trade'
            old == IF dbPortfolios[t.Symbol] = NoRow THEN NewPortfolio
                   ELSE dbPortfolios[t.Symbol]
            new == dbPortfolios'[t.Symbol]
            q == IF t.Side = "sell" THEN -t.Quantity ELSE t.Quantity
            total == old.Quantity * old.AveragePrice + q * t.FillPrice
        IN  /\ new # NoRow
            /\ old.Quantity = 0 =>
                  new.Quantity = q /\ new.AveragePrice = t.FillPrice
            /\ (old.Quantity # 0 /\ Sign(q) = Sign(old.Quantity)) =>
                  /\ new.Quantity = old.Quantity + q
                  /\ 2 * Abs(new.AveragePrice * new.Quantity - total) <= Abs(new.Quantity)
            /\ (old.Quantity # 0 /\ q = -old.Quantity) =>
                  new.Quantity = 0 /\ new.AveragePrice = 0
            /\ (Sign(q) = -Sign(old.Quantity) /\ Abs(q) < Abs(old.Quantity)) =>
                  new.Quantity = old.Quantity + q /\ new.AveragePrice = old.AveragePrice
            /\ (old.Quantity = 1 /\ old.AveragePrice = Dollars(100) /\ q = 1
                  /\ t.FillPrice = Dollars(110)) =>
                  new.Quantity = 2 /\ new.AveragePrice = Dollars(105)
            /\ \A s \in Symbols \ {t.Symbol} : dbPortfolios'[s] = dbPortfolios[s]
    ]_vars

\* Buy 1 @ 100, buy 1 @ 110, sell 2 @ 110: the position is closed at 0 @ 0.
C7_Witness ==
    /\ nops = 3
    /\ trade # NoTrade
    /\ trade.Status = "filled"
    /\ trade.Side = "sell"
    /\ trade.Quantity = 2
    /\ ret = "nil"
    /\ netFlow = Dollars(10)
    /\ dbPortfolios[trade.Symbol] # NoRow
    /\ dbPortfolios[trade.Symbol].Quantity = 0
    /\ dbPortfolios[trade.Symbol].AveragePrice = 0

\* ------------------------------------------------------------------------
\* Properties of Portfolio.UpdatePosition (SpecPosition)

\* C4: after any sequence of UpdatePosition calls from the empty position,
\* quantity = 0 implies averagePrice = 0.
C4_ZeroQuantityZeroAverage == pos.Quantity = 0 => pos.AveragePrice = 0

\* C5: a fill whose direction opposes the sign of a nonzero position only
\* reduces the magnitude of the quantity and never changes its sign.
C5_OppositeFillNeverFlipsSign ==
    (lastFill.before.Quantity # 0
        /\ Sign(lastFill.quantity) = -Sign(lastFill.before.Quantity)) =>
      /\ Sign(pos.Quantity) # -Sign(lastFill.before.Quantity)
      /\ Abs(pos.Quantity) <= Abs(lastFill.before.Quantity)

\* C17: recomputing the unrealized profit/loss is idempotent: a call of
\* CalculateUnrealizedPL that follows a call with the same price leaves the
\* position (market value and unrealized profit/loss included) as the first
\* call left it, and no call changes the quantity or the average price.
C17_RecomputeIdempotent ==
    [][(nops' = nops + 1 /\ lastFill'.call = "CalculateUnrealizedPL") =>
        /\ pos'.Quantity = pos.Quantity
        /\ pos'.AveragePrice = pos.AveragePrice
        /\ (lastFill.call = "CalculateUnrealizedPL" /\ lastFill'.price = lastFill.price)
              => pos' = pos
    ]_vars

\* The profit/loss of a held position was recomputed twice in succession at
\* a price above its average price.
C17_Witness ==
    /\ lastFill.call = "CalculateUnrealizedPL"
    /\ lastFill.before = pos
    /\ pos.Quantity > 0
    /\ pos.CurrentValue = pos.Quantity * lastFill.price
    /\ pos.UnrealizedPL > 0

\* ------------------------------------------------------------------------
\* Properties of makeTradeDecision (SpecDecide)

\* Number of signals of a direction among the inputs of the decision.
NumberOf(direction) == Len(SelectSeq(signals, LAMBDA sig : sig.Signal = direction))

DecidedSymbol == Watchlist[idx]

DecidedPrice == prices[DecidedSymbol]

DecidedPosition == portfolio[DecidedSymbol]

IsIntent(side) == decision # NoTrade /\ decision.Side = side

\* C8: a trade intent is produced only if one direction has strictly more
\* signals than the other and at least 2 signals; a BUY intent only on a BUY
\* quorum, a SELL intent only on a SELL quorum.
C8_QuorumRule ==
    pc = "decided" =>
      /\ IsIntent("buy") =>
            NumberOf("BUY") > NumberOf("SELL") /\ NumberOf("BUY") >= 2
      /\ IsIntent("sell") =>
            NumberOf("SELL") > NumberOf("BUY") /\ NumberOf("SELL") >= 2
      /\ (NumberOf("BUY") = NumberOf("SELL")
            \/ (NumberOf("BUY") < 2 /\ NumberOf("SELL") < 2)) => decision = NoTrade

\* One BUY and one SELL signal, with cash and no position: no intent.
C8_Witness ==
    /\ pc = "decided"
    /\ NumberOf("BUY") = 1
    /\ NumberOf("SELL") = 1
    /\ user.Balance = Dollars(1000)
    /\ DecidedPosition = NoRow
    /\ decision = NoTrade

\* The sum of the strengths of all signals, in tenths.
RECURSIVE SumStrength(_)
SumStrength(n) == IF n = 0 THEN 0 ELSE signals[n].Strength + SumStrength(n - 1)

\* floor(min(maxPositionValue, cash*riskFraction*sumOfStrengths) / price), for
\* cash >= 0.
FloorQuantity ==
    LET den == config.RiskDen * StrengthDen
        num == Min(config.MaxPositionSize * den,
                   user.Balance * config.RiskNum * SumStrength(Len(signals)))
    IN  num \div (den * DecidedPrice)

\* C9: on a BUY quorum with no position or a zero position, the quantity is
\* floor(min(maxPositionValue, cash*riskFraction*sumOfStrengths)/price); a BUY
\* intent of that quantity is emitted if and only if quantity > 0 and
\* quantity*price <= cash; the notional of an emitted BUY exceeds neither the
\* cash nor maxPositionValue.
C9_BuySizing ==
    (pc = "decided"
        /\ NumberOf("BUY") > NumberOf("SELL") /\ NumberOf("BUY") >= 2
        /\ (DecidedPosition = NoRow \/ DecidedPosition.Quantity = 0)) =>
      /\ IsIntent("buy") <=>
            (FloorQuantity > 0 /\ FloorQuantity * DecidedPrice <= user.Balance)
      /\ IsIntent("buy") =>
            /\ decision.Quantity = FloorQuantity
            /\ decision.Quantity > 0
            /\ decision.Quantity * DecidedPrice <= user.Balance
            /\ decision.Quantity * DecidedPrice <= config.MaxPositionSize

\* C10: a BUY intent only with no position or a zero position; a SELL intent
\* only with a position of quantity > 0, for the whole held quantity at the
\* current price; no intent when the winning side's path is inapplicable.
C10_PositionGating ==
    pc = "decided" =>
      /\ IsIntent("buy") =>
            /\ DecidedPosition = NoRow \/ DecidedPosition.Quantity = 0
            /\ decision.Symbol = DecidedSymbol
      /\ IsIntent("sell") =>
            /\ DecidedPosition # NoRow
            /\ DecidedPosition.Quantity > 0
            /\ decision.Quantity = DecidedPosition.Quantity
            /\ decision.Price = DecidedPrice
            /\ decision.Symbol = DecidedSymbol
      /\ (NumberOf("BUY") > NumberOf("SELL") /\ DecidedPosition # NoRow
            /\ DecidedPosition.Quantity # 0) => decision = NoTrade
      /\ (NumberOf("SELL") > NumberOf("BUY")
            /\ (DecidedPosition = NoRow \/ DecidedPosition.Quantity <= 0)) =>
            decision = NoTrade

\* A SELL quorum on a held position: the intent sells the whole of it.
C10_Witness ==
    /\ pc = "decided"
    /\ IsIntent("sell")
    /\ decision.Quantity = 3
    /\ DecidedPosition # NoRow
    /\ DecidedPosition.Quantity = 3

=============================================================================
